---- MODULE Spec2Model ----
(***************************************************************************)
(* Governance engine of enterprise-llm-integration: the CostGuard budget   *)
(* ledger (packages/core/src/governance/costGuard.ts), its price table,    *)
(* and the PII detector's overlap resolution.                              *)
(*                                                                         *)
(* Money is an integer number of budget units and the price table is in    *)
(* micro-dollars per 1K tokens, so that sums and comparisons are exact.    *)
(* Time is in milliseconds, as Date.now() gives it.                        *)
(***************************************************************************)
EXTENDS Integers, Sequences, FiniteSets, TLC

VARIABLES
    config,         \* CostGuard.config, fixed at construction
    usageRecords,   \* CostGuard.usageRecords, the ledger
    now,            \* the clock read by Date.now()
    call,           \* the last CostGuard call made and what it gave back
    requests,       \* the concurrent requests sharing the guard
    quote,          \* the last cost estimate asked for and its answer
    piiConfig,      \* PIIDetector.config
    scan,           \* what the patterns' regexes match in the text given
    detected,       \* the result of the last detection run on the text
    text,           \* the text handed to the detector, character by character
    results,        \* what the detector's process calls on it have returned
    gate,           \* ConfidenceGate.config
    gateInput,      \* the input given to the gate's evaluate
    evaluations,    \* the evaluate calls made on it and what they gave back
    logger,         \* AuditLogger.config
    logCount,       \* AuditLogger.logCount
    logInput,       \* the input the callers of the logger log
    childContext,   \* the context of the logger that child has returned
    emitted,        \* what the sinks have been handed, in order
    logged,         \* the log calls made and what they gave back
    adapter,        \* OpenAIAdapter.config, and what its audit sink does
    chat            \* the chat request in progress on the adapter

guardVars == <<config, usageRecords, now, call>>
piiVars == <<piiConfig, scan, detected, text, results>>
gateVars == <<gate, gateInput, evaluations>>
auditVars == <<logger, logCount, logInput, childContext, emitted, logged>>
chatVars == <<adapter, chat>>
vars == <<config, usageRecords, now, call, requests, quote,
          piiConfig, scan, detected, text, results,
          gate, gateInput, evaluations,
          logger, logCount, logInput, childContext, emitted, logged,
          adapter, chat>>

----------------------------------------------------------------------------
(* Bounds of the model *)

MaxRecords == 3     \* recordUsage is called while the ledger is shorter
MaxTicks == 1       \* the clock advances at most this many days
NumRequests == 3    \* the requests in flight at once against one guard
TextLen == 2        \* the length of the text scanned for PII
MaxMatches == 3     \* the raw matches all patterns find in one text
MaxChunks == 3      \* the pieces a text given character by character is made of
MaxPasses == 2      \* the times a text is put through the detector in a row
MaxEvaluations == 2 \* the evaluate calls made on one input
MaxLogs == 2        \* the log calls made on one logger and its child
MaxRetries == 2     \* the greatest maxRetries an adapter is configured with

----------------------------------------------------------------------------
(* Values *)

\* An optional string that is undefined; "" is falsy in the code's tests too
Undefined == ""

DayMs == 24 * 60 * 60 * 1000
RetentionMs == 7 * 24 * 60 * 60 * 1000

\* JS truthiness of an optional positive number (0 stands for undefined)
Configured(ceiling) == ceiling # 0

\* JS truthiness of an optional string
Given(id) == id # Undefined

NoDetails == [none |-> TRUE]

\* new CostGuard(): CostGuardConfigSchema's defaults, no session or daily
\* ceiling and strict mode on
DefaultConfig ==
    [maxCostPerRequest |-> 3, maxCostPerSession |-> 0, maxCostPerDay |-> 0,
     strictMode |-> TRUE]

\* the configurations explored
Configs ==
    { DefaultConfig,
      [maxCostPerRequest |-> 3, maxCostPerSession |-> 5, maxCostPerDay |-> 6,
       strictMode |-> TRUE],
      [maxCostPerRequest |-> 3, maxCostPerSession |-> 5, maxCostPerDay |-> 6,
       strictMode |-> FALSE] }

\* the usage recorded: whose it is and what it cost
Usages ==
    { [userId |-> "u1", sessionId |-> "s1", cost |-> 2],
      [userId |-> "u1", sessionId |-> "s2", cost |-> 1],
      [userId |-> "u2", sessionId |-> "s1", cost |-> 1] }
Estimates == {1, 3, 4}
\* how long before the call a recorded usage took place
Backdates == {0, RetentionMs, RetentionMs + DayMs}

----------------------------------------------------------------------------
(* CostGuard *)

RECURSIVE SumCost(_)
SumCost(rs) == IF rs = <<>> THEN 0 ELSE Head(rs).cost + SumCost(Tail(rs))

\* the window forgotten: every record of the user counts
InWindow_Always(r, cutoff) == TRUE

InWindow(r, cutoff) == r.timestamp >= cutoff

getUserUsage(records, clock, userId, windowMs) ==
    LET cutoff == clock - windowMs
        Mine(r) == r.userId = userId /\ InWindow(r, cutoff)
    IN SumCost(SelectSeq(records, Mine))

\* the session forgotten: the whole ledger counts
getSessionUsage_AllRecords(records, sessionId) == SumCost(records)

getSessionUsage(records, sessionId) ==
    LET Mine(r) == r.sessionId = sessionId
    IN SumCost(SelectSeq(records, Mine))

\* projected > ceiling * 0.8
Above80(projected, ceiling) == projected * 10 > ceiling * 8

\* a request at the ceiling denied too
Exceeds_AtCeiling(amount, ceiling) == amount >= ceiling

\* the comparison of every ceiling check
Exceeds(amount, ceiling) == amount > ceiling

\* a denial: thrown as a CostGuardError in strict mode, returned otherwise
Deny(cfg, result, reason, details) ==
    IF cfg.strictMode
    THEN [kind |-> "throw",
          error |-> [name |-> "CostGuardError", message |-> reason,
                     code |-> "BUDGET_EXCEEDED", details |-> details]]
    ELSE [kind |-> "return",
          result |-> [result EXCEPT !.allowed = FALSE, !.reason = reason]]

NoReason == [limit |-> "none"]

SessionWarnings(cfg, projected) ==
    IF Above80(projected, cfg.maxCostPerSession)
    THEN <<[limit |-> "session", projected |-> projected,
            ceiling |-> cfg.maxCostPerSession]>>
    ELSE <<>>

DailyWarnings(cfg, projected) == <<>>

DailyCheck(cfg, records, clock, input, result) ==
    IF Configured(cfg.maxCostPerDay) /\ Given(input.userId)
    THEN LET dailyUsage == getUserUsage(records, clock, input.userId, DayMs)
             projected == dailyUsage + input.estimatedCost
             r2 == [result EXCEPT !.remainingBudget.daily =
                                      cfg.maxCostPerDay - projected]
         IN IF Exceeds(projected, cfg.maxCostPerDay)
            THEN Deny(cfg, r2,
                      [limit |-> "daily", projected |-> projected,
                       ceiling |-> cfg.maxCostPerDay],
                      NoDetails)
            ELSE [kind |-> "return",
                  result |-> [r2 EXCEPT !.warnings =
                                 @ \o DailyWarnings(cfg, projected)]]
    ELSE [kind |-> "return", result |-> result]

\* the session check left out
SessionCheck_Skipped(cfg, records, clock, input, result) ==
    DailyCheck(cfg, records, clock, input, result)

SessionCheck(cfg, records, clock, input, result) ==
    IF Configured(cfg.maxCostPerSession) /\ Given(input.sessionId)
    THEN LET sessionUsage == getSessionUsage(records, input.sessionId)
             projected == sessionUsage + input.estimatedCost
             r2 == [result EXCEPT !.remainingBudget.session =
                                      cfg.maxCostPerSession - projected]
         IN IF Exceeds(projected, cfg.maxCostPerSession)
            THEN Deny(cfg, r2,
                      [limit |-> "session", projected |-> projected,
                       ceiling |-> cfg.maxCostPerSession],
                      NoDetails)
            ELSE DailyCheck(cfg, records, clock, input,
                     [r2 EXCEPT !.warnings =
                         @ \o SessionWarnings(cfg, projected)])
    ELSE DailyCheck(cfg, records, clock, input, result)

checkBudget(cfg, records, clock, input) ==
    LET result == [allowed |-> TRUE,
                   reason |-> NoReason,
                   estimatedCost |-> input.estimatedCost,
                   remainingBudget |->
                       [request |-> cfg.maxCostPerRequest - input.estimatedCost,
                        session |-> Undefined, daily |-> Undefined],
                   warnings |-> <<>>]
    IN IF Exceeds(input.estimatedCost, cfg.maxCostPerRequest)
       THEN Deny(cfg, result,
                 [limit |-> "request", projected |-> input.estimatedCost,
                  ceiling |-> cfg.maxCostPerRequest],
                 [estimatedCost |-> input.estimatedCost,
                  limit |-> cfg.maxCostPerRequest])
       ELSE SessionCheck(cfg, records, clock, input, result)

Retained(r, cutoff) == r.timestamp >= cutoff

\* pruning before the push: the new record is never examined
recordUsage_PruneFirst(records, clock, record) ==
    LET cutoff == clock - RetentionMs
        Keep(r) == Retained(r, cutoff)
    IN Append(SelectSeq(records, Keep), record)

recordUsage(records, clock, record) ==
    LET cutoff == clock - RetentionMs
        Keep(r) == Retained(r, cutoff)
    IN SelectSeq(Append(records, record), Keep)

----------------------------------------------------------------------------
(* PIIDetector.  A text is scanned by each pattern's regex; what the model *)
(* takes as given is the raw matches: which pattern matched which span     *)
(* [startIndex, endIndex) of the text, and what the pattern's validator    *)
(* says of the matched value.  Confidences are in hundredths.              *)

PII_PATTERNS ==
    << [name |-> "ssn_dashed", type |-> "ssn", confidence |-> 95,
        validate |-> TRUE, mask |-> TRUE],
       [name |-> "credit_card_spaced", type |-> "credit_card",
        confidence |-> 95, validate |-> TRUE, mask |-> TRUE],
       [name |-> "email", type |-> "email", confidence |-> 98,
        validate |-> FALSE, mask |-> TRUE],
       [name |-> "phone_us", type |-> "phone", confidence |-> 90,
        validate |-> FALSE, mask |-> TRUE],
       [name |-> "ipv4", type |-> "ip_address", confidence |-> 95,
        validate |-> FALSE, mask |-> FALSE] >>

PIITypes == { PII_PATTERNS[k].type : k \in DOMAIN PII_PATTERNS }

\* new PIIDetector(): PIIDetectorConfigSchema's defaults
DefaultPIIConfig ==
    [mode |-> "detect", enabledTypes |-> PIITypes, disabledTypes |-> {},
     confidenceThreshold |-> 80]

PIIConfigs ==
    { DefaultPIIConfig,
      [mode |-> "redact", enabledTypes |-> PIITypes,
       disabledTypes |-> {"email"}, confidenceThreshold |-> 80],
      [mode |-> "mask", enabledTypes |-> {"ssn", "phone", "ip_address"},
       disabledTypes |-> {}, confidenceThreshold |-> 92] }

NoDetection == [impl |-> "none", detections |-> <<>>]

\* the constructor's this.patterns, as positions of PII_PATTERNS
Patterns(cfg) ==
    { k \in DOMAIN PII_PATTERNS :
        /\ PII_PATTERNS[k].type \in cfg.enabledTypes
        /\ PII_PATTERNS[k].type \notin cfg.disabledTypes }

\* the raw matches one text can give, in the order the scan finds them:
\* pattern after pattern, and within a pattern from left to right without
\* overlap, as RegExp.exec with the g flag returns them
RawMatches ==
    { m \in [pattern : DOMAIN PII_PATTERNS, startIndex : 0..TextLen,
             endIndex : 0..TextLen, valid : BOOLEAN] :
        /\ m.startIndex < m.endIndex
        /\ ~PII_PATTERNS[m.pattern].validate => m.valid }

InScanOrder(a, b) ==
    \/ a.pattern < b.pattern
    \/ a.pattern = b.pattern /\ a.endIndex <= b.startIndex

RECURSIVE ScansOfLen(_)
ScansOfLen(n) ==
    IF n = 0 THEN { <<>> }
    ELSE { Append(q[1], q[2]) :
             q \in { p \in ScansOfLen(n - 1) \X RawMatches :
                       p[1] = <<>> \/ InScanOrder(p[1][Len(p[1])], p[2]) } }

\* the value a detection is replaced by
RedactedValue(cfg, pattern) ==
    IF cfg.mode = "mask" /\ pattern.mask THEN "mask"
    ELSE IF cfg.mode = "redact" \/ cfg.mode = "mask" THEN "token"
    ELSE "value"

\* the scan loop of process: the detections pushed, in scan order
RECURSIVE Detections(_, _)
Detections(cfg, raw) ==
    IF raw = <<>> THEN <<>>
    ELSE LET m == Head(raw)
             pattern == PII_PATTERNS[m.pattern]
         IN IF m.pattern \notin Patterns(cfg) THEN Detections(cfg, Tail(raw))
            ELSE IF pattern.validate /\ ~m.valid
                 THEN Detections(cfg, Tail(raw))
            ELSE IF pattern.confidence < cfg.confidenceThreshold
                 THEN Detections(cfg, Tail(raw))
            ELSE <<[type |-> pattern.type,
                    redactedValue |-> RedactedValue(cfg, pattern),
                    startIndex |-> m.startIndex, endIndex |-> m.endIndex,
                    confidence |-> pattern.confidence,
                    patternName |-> pattern.name]>>
                     \o Detections(cfg, Tail(raw))

\* Array.prototype.sort with the comparator (a, b) => key(a) - key(b):
\* s in ascending order of its keys, key[i] being the key of s[i]; the
\* sort is stable, so equal keys stay in the order they have in s
StableSort(s, key) ==
    [k \in 1..Len(s) |->
        s[CHOOSE i \in 1..Len(s) :
            Cardinality({ j \in 1..Len(s) :
                \/ key[j] < key[i]
                \/ key[j] = key[i] /\ j < i }) = k - 1]]

Overlap(d, f) == d.startIndex < f.endIndex /\ d.endIndex > f.startIndex

\* the loop that pushes a detection unless it overlaps one pushed before
RECURSIVE KeepDisjoint(_, _)
KeepDisjoint(detections, filtered) ==
    IF detections = <<>> THEN filtered
    ELSE LET d == Head(detections)
         IN KeepDisjoint(Tail(detections),
                IF \E k \in 1..Len(filtered) : Overlap(d, filtered[k])
                THEN filtered ELSE Append(filtered, d))

\* process without its first sort: matches are kept in scan order
process_ScanOrder(cfg, raw) ==
    LET filtered == KeepDisjoint(Detections(cfg, raw), <<>>)
    IN StableSort(filtered,
                  [i \in DOMAIN filtered |-> filtered[i].startIndex])

\* PIIDetector.process: the detections of its result
process(cfg, raw) ==
    LET pushed == Detections(cfg, raw)
        \* (a, b) => b.startIndex - a.startIndex
        detections == StableSort(pushed,
                          [i \in DOMAIN pushed |-> 0 - pushed[i].startIndex])
        filtered == KeepDisjoint(detections, <<>>)
        \* (a, b) => a.startIndex - b.startIndex
    IN StableSort(filtered,
                  [i \in DOMAIN filtered |-> filtered[i].startIndex])

\* PIIDetector.hasPII: each pattern's regex is run once from lastIndex 0,
\* so only the pattern's first raw match is looked at
hasPII(cfg, raw) ==
    \E k \in Patterns(cfg) :
        LET found == { i \in DOMAIN raw : raw[i].pattern = k }
        IN /\ found # {}
           /\ LET match == raw[CHOOSE i \in found : \A j \in found : i <= j]
              IN /\ ~PII_PATTERNS[k].validate \/ match.valid
                 /\ PII_PATTERNS[k].confidence >= cfg.confidenceThreshold

\* the scan loop of the README's detectPII: every pattern, no threshold
RECURSIVE DemoDetections(_)
DemoDetections(raw) ==
    IF raw = <<>> THEN <<>>
    ELSE LET m == Head(raw)
             pattern == PII_PATTERNS[m.pattern]
         IN IF pattern.validate /\ ~m.valid THEN DemoDetections(Tail(raw))
            ELSE <<[type |-> pattern.type, redacted |-> "token",
                    start |-> m.startIndex, end |-> m.endIndex,
                    confidence |-> pattern.confidence]>>
                     \o DemoDetections(Tail(raw))

\* the README's detectPII: the detections of its result
detectPII(raw) ==
    LET pushed == DemoDetections(raw)
        \* (a, b) => b.start - a.start
        detections == StableSort(pushed,
                          [i \in DOMAIN pushed |-> 0 - pushed[i].start])
        \* (a, b) => a.start - b.start
    IN StableSort(detections,
                  [i \in DOMAIN detections |-> detections[i].start])

----------------------------------------------------------------------------
(* PIIDetector on a text given character by character.  The texts are made *)
(* of the letter a, the digits, the dot, the dash, the at sign and the     *)
(* space; what the five regexes match in such a text is computed below.    *)

DEFAULT_REDACTION_TOKENS ==
    [ssn |-> <<"[", "S", "S", "N", "]">>,
     credit_card |-> <<"[", "C", "R", "E", "D", "I", "T", "_",
                       "C", "A", "R", "D", "]">>,
     email |-> <<"[", "E", "M", "A", "I", "L", "]">>,
     phone |-> <<"[", "P", "H", "O", "N", "E", "]">>,
     ip_address |-> <<"[", "I", "P", "_", "A", "D", "D", "R", "E", "S", "S",
                      "]">>]

Letters ==
    {"a", "A", "C", "D", "E", "H", "I", "L", "M", "N", "O", "P", "R", "S", "T"}
Digits == {"0", "1", "2", "3", "4", "5", "6", "7", "8", "9"}

\* parseInt(c, 10) of a digit
DigitValue ==
    ("0" :> 0) @@ ("1" :> 1) @@ ("2" :> 2) @@ ("3" :> 3) @@ ("4" :> 4) @@
    ("5" :> 5) @@ ("6" :> 6) @@ ("7" :> 7) @@ ("8" :> 8) @@ ("9" :> 9)

\* parseInt(s) of a string of digits
RECURSIVE ParseInt(_)
ParseInt(s) ==
    IF s = <<>> THEN 0
    ELSE 10 * ParseInt(SubSeq(s, 1, Len(s) - 1)) + DigitValue[s[Len(s)]]

\* s.replace(/[class]/g, '')
Without(s, class) == LET Stays(c) == c \notin class IN SelectSeq(s, Stays)

\* luhnCheck's loop from index i down to 0, i counted from 1 here
RECURSIVE LuhnLoop(_, _, _)
LuhnLoop(digits, i, isEven) ==
    IF i < 1 THEN 0
    ELSE LET digit == DigitValue[digits[i]]
             doubled == IF digit * 2 > 9 THEN digit * 2 - 9 ELSE digit * 2
         IN (IF isEven THEN doubled ELSE digit)
                + LuhnLoop(digits, i - 1, ~isEven)

luhnCheck(cardNumber) ==
    LET IsDigit(c) == c \in Digits
        digits == SelectSeq(cardNumber, IsDigit)
    IN IF Len(digits) < 13 \/ Len(digits) > 19 THEN FALSE
       ELSE LuhnLoop(digits, Len(digits), FALSE) % 10 = 0

ssnValidate_Allow666(match) ==
    LET clean == Without(match, {"-"})
        area == SubSeq(clean, 1, 3)
        group == SubSeq(clean, 4, 5)
        serial == SubSeq(clean, 6, Len(clean))
    IN /\ area # <<"0", "0", "0">>
       /\ group # <<"0", "0">>
       /\ serial # <<"0", "0", "0", "0">>
       /\ ParseInt(area) < 900

\* the validate function of ssn_dashed
ssnValidate(match) ==
    LET clean == Without(match, {"-"})
        area == SubSeq(clean, 1, 3)
        group == SubSeq(clean, 4, 5)
        serial == SubSeq(clean, 6, Len(clean))
    IN /\ area # <<"0", "0", "0">>
       /\ group # <<"0", "0">>
       /\ serial # <<"0", "0", "0", "0">>
       /\ area # <<"6", "6", "6">>
       /\ ParseInt(area) < 900

\* the validate function of credit_card_spaced
cardValidate(match) == luhnCheck(Without(match, {"-", " "}))

\* pattern.validate(value), for the patterns that have one
Validate(k, value) ==
    IF PII_PATTERNS[k].name = "ssn_dashed" THEN ssnValidate(value)
    ELSE IF PII_PATTERNS[k].name = "credit_card_spaced"
         THEN cardValidate(value)
    ELSE TRUE

\* the character at a JS index of the text, "" outside of it
CharAt(t, i) == IF i \in 0..(Len(t) - 1) THEN t[i + 1] ELSE ""

\* \w
IsWord(c) == c \in Letters \cup Digits \cup {"_"}

\* \b at index i: a word character on exactly one side
WordBoundary(t, i) == IsWord(CharAt(t, i - 1)) # IsWord(CharAt(t, i))

\* [A-Za-z0-9._%+-], [A-Za-z0-9.-] and [A-Z|a-z]
LocalChars == Letters \cup Digits \cup {".", "_", "%", "+", "-"}
DomainChars == Letters \cup Digits \cup {".", "-"}
TldChars == Letters \cup {"|"}

\* text.slice(from, to) is made of the characters of the class only
AllIn(t, from, to, class) == \A x \in from..(to - 1) : CharAt(t, x) \in class

\* the ends e at which text.slice(i, e) matches
\* /\b[A-Za-z0-9._%+-]+@[A-Za-z0-9.-]+\.[A-Z|a-z]{2,}\b/
EmailEnds(t, i) ==
    IF ~WordBoundary(t, i) THEN {}
    ELSE { e \in (i + 1)..Len(t) :
             /\ WordBoundary(t, e)
             /\ \E at \in { x \in (i + 1)..(e - 1) : CharAt(t, x) = "@" } :
                   /\ AllIn(t, i, at, LocalChars)
                   /\ \E dot \in { x \in (at + 2)..(e - 3) :
                                      CharAt(t, x) = "." } :
                         /\ AllIn(t, at + 1, dot, DomainChars)
                         /\ AllIn(t, dot + 1, e, TldChars) }

\* text.slice(from, to) matches (?:25[0-5]|2[0-4][0-9]|[01]?[0-9][0-9]?)
Octet(t, from, to) ==
    /\ (to - from) \in 1..3
    /\ AllIn(t, from, to, Digits)
    /\ (to - from) = 3 =>
          \/ CharAt(t, from) \in {"0", "1"}
          \/ /\ CharAt(t, from) = "2"
             /\ CharAt(t, from + 1) \in {"0", "1", "2", "3", "4"}
          \/ /\ CharAt(t, from) = "2" /\ CharAt(t, from + 1) = "5"
             /\ CharAt(t, from + 2) \in {"0", "1", "2", "3", "4", "5"}

\* the ends e at which text.slice(i, e) matches the ipv4 regex: four octets
\* with a dot after each of the first three, between two word boundaries
IPv4Ends(t, i) ==
    IF ~WordBoundary(t, i) THEN {}
    ELSE { e \in (i + 1)..Len(t) :
             /\ WordBoundary(t, e)
             /\ \E d1 \in (i + 1)..(i + 3) :
                   /\ Octet(t, i, d1) /\ CharAt(t, d1) = "."
                   /\ \E d2 \in (d1 + 2)..(d1 + 4) :
                         /\ Octet(t, d1 + 1, d2) /\ CharAt(t, d2) = "."
                         /\ \E d3 \in (d2 + 2)..(d2 + 4) :
                               /\ Octet(t, d2 + 1, d3)
                               /\ CharAt(t, d3) = "."
                               /\ Octet(t, d3 + 1, e) }

\* the length of what an optional separator [class]? takes at index x
SepLen(t, x, class) == IF CharAt(t, x) \in class THEN 1 ELSE 0

\* the ends e at which text.slice(i, e) matches /\b(\d{3})-(\d{2})-(\d{4})\b/
SsnEnds(t, i) ==
    IF /\ WordBoundary(t, i) /\ WordBoundary(t, i + 11)
       /\ AllIn(t, i, i + 3, Digits) /\ CharAt(t, i + 3) = "-"
       /\ AllIn(t, i + 4, i + 6, Digits) /\ CharAt(t, i + 6) = "-"
       /\ AllIn(t, i + 7, i + 11, Digits)
    THEN {i + 11} ELSE {}

\* the ends at which text.slice(i, e) matches
\* /\b(\d{4}[-\s]?\d{4}[-\s]?\d{4}[-\s]?\d{4})\b/
CardEnds(t, i) ==
    LET g2 == i + 4 + SepLen(t, i + 4, {"-", " "})
        g3 == g2 + 4 + SepLen(t, g2 + 4, {"-", " "})
        g4 == g3 + 4 + SepLen(t, g3 + 4, {"-", " "})
    IN IF /\ WordBoundary(t, i) /\ WordBoundary(t, g4 + 4)
          /\ AllIn(t, i, i + 4, Digits) /\ AllIn(t, g2, g2 + 4, Digits)
          /\ AllIn(t, g3, g3 + 4, Digits) /\ AllIn(t, g4, g4 + 4, Digits)
       THEN {g4 + 4} ELSE {}

\* the ends at which text.slice(i, e) matches the phone regex; the texts
\* hold no +, ( or ), so its optional +1 prefix and parentheses are empty:
\* /\b\d{3}[-.\s]?\d{3}[-.\s]?\d{4}\b/
PhoneEnds(t, i) ==
    LET g2 == i + 3 + SepLen(t, i + 3, {"-", ".", " "})
        g3 == g2 + 3 + SepLen(t, g2 + 3, {"-", ".", " "})
    IN IF /\ WordBoundary(t, i) /\ WordBoundary(t, g3 + 4)
          /\ AllIn(t, i, i + 3, Digits) /\ AllIn(t, g2, g2 + 3, Digits)
          /\ AllIn(t, g3, g3 + 4, Digits)
       THEN {g3 + 4} ELSE {}

MatchEnds(t, k, i) ==
    LET name == PII_PATTERNS[k].name
    IN IF name = "ssn_dashed" THEN SsnEnds(t, i)
       ELSE IF name = "credit_card_spaced" THEN CardEnds(t, i)
       ELSE IF name = "email" THEN EmailEnds(t, i)
       ELSE IF name = "phone_us" THEN PhoneEnds(t, i)
       ELSE IPv4Ends(t, i)

SetMin(S) == CHOOSE x \in S : \A y \in S : x <= y
SetMax(S) == CHOOSE x \in S : \A y \in S : x >= y

\* the loop while ((match = pattern.regex.exec(text)) !== null) from
\* lastIndex on: the leftmost start that matches, the greedy quantifiers
\* taking the longest match there, then on from the end of the match
RECURSIVE Exec(_, _, _)
Exec(t, k, lastIndex) ==
    LET starts == { i \in lastIndex..(Len(t) - 1) : MatchEnds(t, k, i) # {} }
    IN IF starts = {} THEN <<>>
       ELSE LET i == SetMin(starts)
                e == SetMax(MatchEnds(t, k, i))
            IN <<[pattern |-> k, startIndex |-> i, endIndex |-> e,
                  valid |-> Validate(k, SubSeq(t, i + 1, e))]>>
                   \o Exec(t, k, e)

\* the raw matches of the text, pattern after pattern
RECURSIVE ScanFrom(_, _)
ScanFrom(t, k) ==
    IF k > Len(PII_PATTERNS) THEN <<>>
    ELSE Exec(t, k, 0) \o ScanFrom(t, k + 1)

\* the detections process keeps, in the order it pushed them to filtered
Filtered(cfg, raw) ==
    LET pushed == Detections(cfg, raw)
    IN KeepDisjoint(StableSort(pushed,
           [i \in DOMAIN pushed |-> 0 - pushed[i].startIndex]), <<>>)

\* pattern.mask(value) of the pattern called name
Mask(name, value) ==
    LET Last4(s) == SubSeq(s, IF Len(s) > 4 THEN Len(s) - 3 ELSE 1, Len(s))
        at == CHOOSE i \in 1..Len(value) + 1 :
                  /\ i = Len(value) + 1 \/ value[i] = "@"
                  /\ \A j \in 1..(i - 1) : value[j] # "@"
    IN CASE name = "ssn_dashed" ->
              <<"X", "X", "X", "-", "X", "X", "-">> \o Last4(value)
         [] name = "credit_card_spaced" ->
              <<"*", "*", "*", "*", "-", "*", "*", "*", "*", "-",
                "*", "*", "*", "*", "-">> \o Last4(Without(value, {"-", " "}))
         [] name = "email" ->
              <<value[1], "*", "*", "*", "@">>
                  \o SubSeq(value, at + 1, Len(value))
         [] name = "phone_us" ->
              <<"(", "*", "*", "*", ")", " ", "*", "*", "*", "-">>
                  \o Last4(LET IsDigit(c) == c \in Digits
                           IN SelectSeq(value, IsDigit))

\* the detection d of the text t with its value and redactedValue written
\* out: the mask of the value, the type's token, or the value itself
TextDetection(t, d) ==
    LET value == SubSeq(t, d.startIndex + 1, d.endIndex)
    IN [type |-> d.type, value |-> value,
        redactedValue |->
            IF d.redactedValue = "mask" THEN Mask(d.patternName, value)
            ELSE IF d.redactedValue = "token"
                 THEN DEFAULT_REDACTION_TOKENS[d.type]
            ELSE value,
        startIndex |-> d.startIndex, endIndex |-> d.endIndex,
        confidence |-> d.confidence, patternName |-> d.patternName]

\* the replacement loop taking the detections from the left to the right
RECURSIVE Replaced_Ascending(_, _)
Replaced_Ascending(t, filtered) ==
    IF filtered = <<>> THEN t
    ELSE LET d == filtered[Len(filtered)]
             from == IF d.startIndex < Len(t) THEN d.startIndex ELSE Len(t)
             to == IF d.endIndex < Len(t) THEN d.endIndex ELSE Len(t)
         IN Replaced_Ascending(SubSeq(t, 1, from) \o d.redactedValue
                                   \o SubSeq(t, to + 1, Len(t)),
                               SubSeq(filtered, 1, Len(filtered) - 1))

\* processedText.slice(0, d.startIndex) + d.redactedValue
\*     + processedText.slice(d.endIndex), for each d of filtered in turn
RECURSIVE Replaced(_, _)
Replaced(t, filtered) ==
    IF filtered = <<>> THEN t
    ELSE LET d == Head(filtered)
         IN Replaced(SubSeq(t, 1, d.startIndex) \o d.redactedValue
                         \o SubSeq(t, d.endIndex + 1, Len(t)),
                     Tail(filtered))

\* PIIDetector.process: its result
processText(cfg, t) ==
    LET raw == ScanFrom(t, 1)
        AsText(s) == [i \in DOMAIN s |-> TextDetection(t, s[i])]
        detections == AsText(process(cfg, raw))
    IN [text |-> IF cfg.mode # "detect"
                 THEN Replaced(t, AsText(Filtered(cfg, raw)))
                 ELSE t,
        originalText |-> t,
        detections |-> detections,
        hasPII |-> Len(detections) > 0,
        detectionCount |-> Len(detections)]

----------------------------------------------------------------------------
(* ConfidenceGate.  Scores are in ten-thousandths, so that the weighted    *)
(* sums are exact.  A content is given by what evaluate reads of it: its   *)
(* length, the uncertainty patterns its regexes match in scan order, and   *)
(* the four features the quality score counts.                             *)

Unit == 100 * 100

\* an optional number or array that is undefined
Absent == 0 - 1

\* new ConfidenceGate(): ConfidenceGateConfigSchema's defaults
DefaultGateConfig ==
    [minConfidence |-> 7000, maxUncertainty |-> 3000,
     requireCitations |-> FALSE, minCitations |-> 0,
     escalateOnLowConfidence |-> TRUE,
     highConfidenceCategories |-> {"medical", "legal", "financial"}]

GateConfigs ==
    { DefaultGateConfig,
      [minConfidence |-> 8000, maxUncertainty |-> 1500,
       requireCitations |-> TRUE, minCitations |-> 2,
       escalateOnLowConfidence |-> TRUE,
       highConfidenceCategories |-> {"medical"}],
      [minConfidence |-> 5000, maxUncertainty |-> 3000,
       requireCitations |-> TRUE, minCitations |-> 1,
       escalateOnLowConfidence |-> FALSE,
       highConfidenceCategories |-> {"medical", "legal", "financial"}] }

UNCERTAINTY_PATTERNS ==
    << [name |-> "i think", weight |-> 3000],
       [name |-> "i believe", weight |-> 3000],
       [name |-> "i'm not sure", weight |-> 6000],
       [name |-> "possibly", weight |-> 4000],
       [name |-> "perhaps", weight |-> 4000],
       [name |-> "maybe", weight |-> 4000],
       [name |-> "might", weight |-> 3000],
       [name |-> "i speculate", weight |-> 6000],
       [name |-> "i don't have (access|information)", weight |-> 7000],
       [name |-> "you should (consult|verify|check)", weight |-> 5000] >>

\* the contents given to the gate:
\*   'Treatment is effective.', 'I think maybe possibly around 10.', '',
\*   and a text of 1000 characters in several lines, of more than 50 words,
\*   that says 'might' once and ends with a full stop
Contents ==
    { [length |-> 23, matches |-> <<>>, wordCount |-> 3,
       newline |-> FALSE, digit |-> FALSE, terminated |-> TRUE],
      [length |-> 33, matches |-> <<1, 4, 6>>, wordCount |-> 6,
       newline |-> FALSE, digit |-> TRUE, terminated |-> TRUE],
      [length |-> 0, matches |-> <<>>, wordCount |-> 1,
       newline |-> FALSE, digit |-> FALSE, terminated |-> FALSE],
      [length |-> 1000, matches |-> <<7>>, wordCount |-> 150,
       newline |-> TRUE, digit |-> FALSE, terminated |-> TRUE] }

\* EvaluationInputSchema: modelConfidence, citations, sources and category
\* are optional; citations and sources are given by their length
EvaluationInputs ==
    [content : Contents,
     modelConfidence : {Absent, 5000, 7500, Unit, 15000},
     citations : {Absent, 0, 2},
     sources : {Absent, 2},
     category : {Undefined, "medical"}]

NoInput == [content |-> "none"]

\* the markers pushed, pattern after pattern
detectUncertainty(content) ==
    [i \in 1..Len(content.matches) |->
        [marker |-> UNCERTAINTY_PATTERNS[content.matches[i]].name,
         weight |-> UNCERTAINTY_PATTERNS[content.matches[i]].weight]]

RECURSIVE TotalWeight(_)
TotalWeight(markers) ==
    IF markers = <<>> THEN 0
    ELSE Head(markers).weight + TotalWeight(Tail(markers))

\* Math.min(totalWeight / Math.max(1, contentLength / 500), 1.0); the
\* lengths above 500 of the contents divide their total weights exactly
calculateUncertaintyScore(markers, contentLength) ==
    IF Len(markers) = 0 THEN 0
    ELSE LET totalWeight == TotalWeight(markers)
             quotient == IF contentLength <= 500 THEN totalWeight
                         ELSE (totalWeight * 500) \div contentLength
         IN IF quotient < Unit THEN quotient ELSE Unit

calculateQualityScore(content) ==
    LET score == 5000
                 + (IF content.wordCount >= 50 THEN 2000 ELSE 0)
                 + (IF content.newline THEN 1000 ELSE 0)
                 + (IF content.digit THEN 1000 ELSE 0)
                 + (IF content.terminated THEN 1000 ELSE 0)
    IN IF score < Unit THEN score ELSE Unit

\* Math.max(0, Math.min(1, x))
Clamp(x) == IF x < 0 THEN 0 ELSE IF x > Unit THEN Unit ELSE x

\* EvaluationInputSchema.parse accepts the input
ValidInput(input) ==
    input.modelConfidence = Absent \/ input.modelConfidence \in 0..Unit

Passes_IgnoreCitations(cfg, confidence, uncertainty, sufficient) ==
    /\ ~(confidence < cfg.minConfidence)
    /\ ~(uncertainty > cfg.maxUncertainty)

\* let passed = true, set to false by each of the three tests that fails
Passes(cfg, confidence, uncertainty, sufficient) ==
    /\ ~(confidence < cfg.minConfidence)
    /\ ~(uncertainty > cfg.maxUncertainty)
    /\ sufficient

RequiresHumanReview_Always(cfg, passed) == cfg.escalateOnLowConfidence

\* requiresHumanReview: !passed && this.config.escalateOnLowConfidence
RequiresHumanReview(cfg, passed) == ~passed /\ cfg.escalateOnLowConfidence

\* ConfidenceGate.evaluate at time clock, taking elapsed milliseconds
evaluate(cfg, input, clock, elapsed) ==
    IF ~ValidInput(input)
    THEN [kind |-> "throw", error |-> [name |-> "ZodError"]]
    ELSE
    LET uncertaintyMarkers == detectUncertainty(input.content)
        uncertaintyScore ==
            calculateUncertaintyScore(uncertaintyMarkers, input.content.length)
        qualityScore == calculateQualityScore(input.content)
        base == IF input.modelConfidence = Absent THEN 7000
                ELSE input.modelConfidence
        scrutinised == /\ Given(input.category)
                       /\ input.category \in cfg.highConfidenceCategories
        confidenceScore ==
            Clamp(base - ((uncertaintyScore * 3) \div 10)
                       + (((qualityScore - 5000) * 2) \div 10)
                       - (IF scrutinised THEN 1000 ELSE 0))
        \* citations || sources || []: an array, empty or not, is truthy
        count == IF input.citations # Absent THEN input.citations
                 ELSE IF input.sources # Absent THEN input.sources
                 ELSE 0
        citationsSufficient ==
            ~cfg.requireCitations \/ count >= cfg.minCitations
        passed == Passes(cfg, confidenceScore, uncertaintyScore,
                         citationsSufficient)
        reasons ==
            (IF scrutinised
             THEN <<[reason |-> "High-scrutiny category",
                     value |-> 0, limit |-> 0]>> ELSE <<>>)
            \o (IF ~citationsSufficient
                THEN <<[reason |-> "Insufficient citations",
                        value |-> count, limit |-> cfg.minCitations]>>
                ELSE <<>>)
            \o (IF confidenceScore < cfg.minConfidence
                THEN <<[reason |-> "Confidence score below threshold",
                        value |-> confidenceScore,
                        limit |-> cfg.minConfidence]>> ELSE <<>>)
            \o (IF uncertaintyScore > cfg.maxUncertainty
                THEN <<[reason |-> "Uncertainty score above threshold",
                        value |-> uncertaintyScore,
                        limit |-> cfg.maxUncertainty]>> ELSE <<>>)
            \o (IF Len(uncertaintyMarkers) > 0
                THEN <<[reason |-> "Found uncertainty marker(s)",
                        value |-> Len(uncertaintyMarkers), limit |-> 0]>>
                ELSE <<>>)
    IN [kind |-> "return",
        result |->
          [passed |-> passed, confidenceScore |-> confidenceScore,
           uncertaintyScore |-> uncertaintyScore,
           qualityScore |-> qualityScore,
           requiresHumanReview |-> RequiresHumanReview(cfg, passed),
           reasons |-> reasons, uncertaintyMarkers |-> uncertaintyMarkers,
           citations |-> [count |-> count, required |-> cfg.minCitations,
                          sufficient |-> citationsSufficient],
           metadata |-> [evaluatedAt |-> clock, processingTimeMs |-> elapsed,
                         category |-> input.category]]]

----------------------------------------------------------------------------
(* The audit logger: keys, JSON values and redaction *)

\* An optional object (or an id, a timestamp, a hash) that is undefined
Missing == [type |-> "undefined"]

\* String.prototype.toLowerCase, on one character and on a key
LowerChar(c) ==
    LET upper ==
          <<"A", "B", "C", "D", "E", "F", "G", "H", "I", "J", "K", "L", "M", "N",
            "O", "P", "Q", "R", "S", "T", "U", "V", "W", "X", "Y", "Z">>
        lower ==
          <<"a", "b", "c", "d", "e", "f", "g", "h", "i", "j", "k", "l", "m", "n",
            "o", "p", "q", "r", "s", "t", "u", "v", "w", "x", "y", "z">>
    IN IF \E i \in 1..Len(upper) : upper[i] = c
       THEN lower[CHOOSE i \in 1..Len(upper) : upper[i] = c]
       ELSE c

toLowerCase(s) == [i \in 1..Len(s) |-> LowerChar(s[i])]

\* String.prototype.includes
includes(s, f) ==
    \E i \in 0..(Len(s) - Len(f)) : SubSeq(s, i + 1, i + Len(f)) = f

\* JSON values: a key is a sequence of characters, an object is the
\* sequence of its entries in insertion order
Str(s) == [type |-> "string", string |-> s]
Obj(es) == [type |-> "object", entries |-> es]
Arr(xs) == [type |-> "array", items |-> xs]
Entry(k, v) == [key |-> k, value |-> v]

LOG_LEVEL_PRIORITY ==
    [debug |-> 0, info |-> 1, warn |-> 2, error |-> 3, critical |-> 4]

\* key.toLowerCase().includes(f.toLowerCase()) for some f of redactFields
Denylisted(cfg, key) ==
    \E n \in 1..Len(cfg.redactFields) :
        includes(toLowerCase(key), toLowerCase(cfg.redactFields[n]))

\* AuditLogger.redact on the entries of an object
RECURSIVE redact(_, _)
redact(cfg, obj) ==
    [i \in 1..Len(obj) |->
        IF Denylisted(cfg, obj[i].key)
        THEN Entry(obj[i].key, Str("[REDACTED]"))
        ELSE IF obj[i].value.type = "object"
        THEN Entry(obj[i].key, Obj(redact(cfg, obj[i].value.entries)))
        ELSE obj[i]]

\* The fields of an entry in the order log inserts them, each with its key
\* and with the value that stands for its absence
EntryFields ==
    << [name |-> "id", undefined |-> Missing,
        key |-> <<"i", "d">>],
       [name |-> "timestamp", undefined |-> Missing,
        key |-> <<"t", "i", "m", "e", "s", "t", "a", "m", "p">>],
       [name |-> "timestampMs", undefined |-> Absent,
        key |-> <<"t", "i", "m", "e", "s", "t", "a", "m", "p", "M", "s">>],
       [name |-> "service", undefined |-> Undefined,
        key |-> <<"s", "e", "r", "v", "i", "c", "e">>],
       [name |-> "environment", undefined |-> Undefined,
        key |-> <<"e", "n", "v", "i", "r", "o", "n", "m", "e", "n", "t">>],
       [name |-> "schemaVersion", undefined |-> Undefined,
        key |-> <<"s", "c", "h", "e", "m", "a", "V", "e", "r", "s", "i", "o", "n">>],
       [name |-> "level", undefined |-> Undefined,
        key |-> <<"l", "e", "v", "e", "l">>],
       [name |-> "action", undefined |-> Undefined,
        key |-> <<"a", "c", "t", "i", "o", "n">>],
       [name |-> "userId", undefined |-> Undefined,
        key |-> <<"u", "s", "e", "r", "I", "d">>],
       [name |-> "sessionId", undefined |-> Undefined,
        key |-> <<"s", "e", "s", "s", "i", "o", "n", "I", "d">>],
       [name |-> "requestId", undefined |-> Undefined,
        key |-> <<"r", "e", "q", "u", "e", "s", "t", "I", "d">>],
       [name |-> "traceId", undefined |-> Undefined,
        key |-> <<"t", "r", "a", "c", "e", "I", "d">>],
       [name |-> "message", undefined |-> Undefined,
        key |-> <<"m", "e", "s", "s", "a", "g", "e">>],
       [name |-> "durationMs", undefined |-> Absent,
        key |-> <<"d", "u", "r", "a", "t", "i", "o", "n", "M", "s">>],
       [name |-> "outcome", undefined |-> Undefined,
        key |-> <<"o", "u", "t", "c", "o", "m", "e">>],
       [name |-> "metadata", undefined |-> Missing,
        key |-> <<"m", "e", "t", "a", "d", "a", "t", "a">>],
       [name |-> "error", undefined |-> Missing,
        key |-> <<"e", "r", "r", "o", "r">>] >>

\* the entry log returns for a level it filters: {}
EmptyEntry ==
    [id |-> Missing, timestamp |-> Missing, timestampMs |-> Absent,
     service |-> Undefined, environment |-> Undefined,
     schemaVersion |-> Undefined, level |-> Undefined, action |-> Undefined,
     userId |-> Undefined, sessionId |-> Undefined, requestId |-> Undefined,
     traceId |-> Undefined, message |-> Undefined, durationMs |-> Absent,
     outcome |-> Undefined, metadata |-> Missing, error |-> Missing,
     integrityHash |-> Missing]

\* the JSON value of a field of an entry
FieldValue(entry, name) ==
    IF name \in {"timestampMs", "durationMs"} THEN [type |-> "number", number |-> entry[name]]
    ELSE IF name = "metadata" THEN entry.metadata
    ELSE IF name = "error"
    THEN Obj(<< Entry(<<"n", "a", "m", "e">>, Str(entry.error.name)),
                Entry(<<"m", "e", "s", "s", "a", "g", "e">>, Str(entry.error.message)) >>
             \o (IF Given(entry.error.stack)
                 THEN << Entry(<<"s", "t", "a", "c", "k">>, Str(entry.error.stack)) >>
                 ELSE << >>))
    ELSE Str(entry[name])

\* the entry as the object JSON.stringify and Object.keys see
EntryObject(entry) ==
    LET present == SelectSeq(EntryFields,
                             LAMBDA f : entry[f.name] # f.undefined)
    IN Obj([i \in 1..Len(present) |->
               Entry(present[i].key, FieldValue(entry, present[i].name))])

\* the place of each character of a key in the order of the UTF-16 code
\* units
CodeUnit ==
    LET units ==
          <<"0", "1", "2", "3", "4", "5", "6", "7", "8", "9", "A", "B", "C", "D",
            "E", "F", "G", "H", "I", "J", "K", "L", "M", "N", "O", "P", "Q", "R",
            "S", "T", "U", "V", "W", "X", "Y", "Z", "_", "a", "b", "c", "d", "e",
            "f", "g", "h", "i", "j", "k", "l", "m", "n", "o", "p", "q", "r", "s",
            "t", "u", "v", "w", "x", "y", "z">>
    IN [c \in {units[i] : i \in 1..Len(units)} |->
           CHOOSE i \in 1..Len(units) : units[i] = c]

\* a < b as Array.prototype.sort compares two strings by default
RECURSIVE Before(_, _)
Before(a, b) ==
    IF b = << >> THEN FALSE
    ELSE IF a = << >> THEN TRUE
    ELSE IF Head(a) = Head(b) THEN Before(Tail(a), Tail(b))
    ELSE CodeUnit[Head(a)] < CodeUnit[Head(b)]

\* sorted with key put at its place
Insert(key, sorted) ==
    LET p == Cardinality({j \in 1..Len(sorted) : Before(sorted[j], key)})
    IN SubSeq(sorted, 1, p) \o << key >> \o SubSeq(sorted, p + 1, Len(sorted))

\* Array.prototype.sort with no comparator, on keys
RECURSIVE Sort(_)
Sort(keys) ==
    IF keys = << >> THEN << >> ELSE Insert(Head(keys), Sort(Tail(keys)))

\* the value of the property key of an object, Missing if it has none
Property(obj, key) ==
    IF \E i \in 1..Len(obj.entries) : obj.entries[i].key = key
    THEN obj.entries[CHOOSE i \in 1..Len(obj.entries) :
                         obj.entries[i].key = key].value
    ELSE Missing

\* JSON.stringify(value, list): of every object, at every depth, the
\* properties named in list and no others, in the order of list; the
\* elements of an array are all kept.  The result is the tree that the
\* JSON text spells out.
RECURSIVE stringify(_, _)
stringify(value, list) ==
    IF value.type = "object"
    THEN LET kept == SelectSeq(list,
                         LAMBDA k : Property(value, k) # Missing)
         IN Obj([i \in 1..Len(kept) |->
                    Entry(kept[i], stringify(Property(value, kept[i]), list))])
    ELSE IF value.type = "array"
    THEN Arr([i \in 1..Len(value.items) |-> stringify(value.items[i], list)])
    ELSE value

\* AuditLogger.computeHash of the object an entry is: the digest stands for
\* the text it was taken of
computeHash(obj) ==
    LET keys == [i \in 1..Len(obj.entries) |-> obj.entries[i].key]
    IN [type |-> "sha256", of |-> stringify(obj, Sort(keys))]

\* Number.prototype.toString(36): the digits, most significant first
RECURSIVE ToBase36(_)
ToBase36(n) ==
    IF n < 36 THEN << n >> ELSE Append(ToBase36(n \div 36), n % 36)

\* String.prototype.padStart(width, '0') on digits
RECURSIVE padStart(_, _)
padStart(digits, width) ==
    IF Len(digits) >= width THEN digits
    ELSE padStart(<< 0 >> \o digits, width)

\* what Math.random().toString(36).slice(2, 8) can give
Randoms == { "4fzzzx", "k3v9qa" }

generateId_NoSequence(count, clock, random) ==
    [prefix |-> "log", time |-> ToBase36(clock), random |-> random,
     sequence |-> << >>]

\* AuditLogger.generateId with logCount = count before the call: the parts
\* of the id, which the underscores between them keep apart
generateId(count, clock, random) ==
    [prefix |-> "log", time |-> ToBase36(clock), random |-> random,
     sequence |-> padStart(ToBase36(count + 1), 4)]

shouldLog_Always(cfg, level) == TRUE

\* AuditLogger.shouldLog
shouldLog(cfg, level) ==
    LOG_LEVEL_PRIORITY[level] >= LOG_LEVEL_PRIORITY[cfg.minLevel]

\* AuditLoggerConfigSchema with its defaults
DefaultLoggerConfig ==
    [serviceName |-> "enterprise-llm", environment |-> "development",
     minLevel |-> "info", enableIntegrityHash |-> TRUE,
     output |-> "console", onLog |-> FALSE,
     redactFields |->
         << <<"a", "p", "i", "K", "e", "y">>,
            <<"p", "a", "s", "s", "w", "o", "r", "d">>,
            <<"s", "e", "c", "r", "e", "t">>,
            <<"t", "o", "k", "e", "n">>,
            <<"a", "u", "t", "h", "o", "r", "i", "z", "a", "t", "i", "o", "n">> >>]

\* onLog tells whether a callback was given
LoggerConfigs ==
    { DefaultLoggerConfig,
      [DefaultLoggerConfig EXCEPT !.serviceName = "test",
                                  !.environment = "test",
                                  !.output = "callback", !.onLog = TRUE],
      [DefaultLoggerConfig EXCEPT !.minLevel = "warn",
                                  !.enableIntegrityHash = FALSE,
                                  !.output = "callback"] }

\* an AuditLogEntryInput with every optional field undefined
LogInput(action, level) ==
    [action |-> action, level |-> level, userId |-> Undefined,
     sessionId |-> Undefined, requestId |-> Undefined, traceId |-> Undefined,
     message |-> Undefined, metadata |-> Missing, error |-> Missing,
     durationMs |-> Absent, outcome |-> Undefined]

LogInputs ==
    { [LogInput("llm.request", Undefined) EXCEPT !.message = "Test"],
      [LogInput("llm.request", "debug") EXCEPT
          !.metadata = Obj(<< Entry(<<"a", "p", "i", "K", "e", "y">>, Str("sk-x")) >>)],
      [LogInput("llm.request", "warn") EXCEPT
          !.metadata = Obj(<< Entry(<<"m", "o", "d", "e", "l">>, Str("gpt-4")),
                              Entry(<<"a", "p", "i", "K", "e", "y">>, Str("sk-secret")),
                              Entry(<<"A", "P", "I", "_", "T", "O", "K", "E", "N">>,
                                    Str("t-1")) >>)],
      [LogInput("llm.error", "error") EXCEPT
          !.message = "Test error",
          !.outcome = "failure",
          !.error = [name |-> "Error", message |-> "Test error",
                     stack |-> Undefined],
          !.metadata = Obj(<< Entry(<<"c", "o", "n", "f", "i", "g">>,
              Obj(<< Entry(<<"a", "p", "i", "K", "e", "y">>, Str("secret")),
                     Entry(<<"b", "a", "s", "e", "U", "r", "l">>,
                           Str("https://api.example.com")) >>)) >>)],
      [LogInput("llm.error", "critical") EXCEPT
          !.error = [name |-> "TypeError", message |-> "x is undefined",
                     stack |-> "at f"]],
      [LogInput("llm.request", "info") EXCEPT
          !.metadata = Obj(<< Entry(<<"i", "t", "e", "m", "s">>,
              Arr(<< Obj(<< Entry(<<"a", "p", "i", "K", "e", "y">>, Str("secret")) >>),
                     Str("plain") >>)) >>)],
      [LogInput("llm.response", "info") EXCEPT
          !.requestId = "req789", !.userId = "user123",
          !.sessionId = "sess456", !.traceId = "trace1",
          !.durationMs = 150, !.outcome = "success"],
      [LogInput("custom", "warn") EXCEPT
          !.message = "Test",
          !.metadata = Obj(<< Entry(<<"m", "e", "s", "s", "a", "g", "e">>, Str("inner")),
                              Entry(<<"n", "o", "t", "e">>, Str("n")) >>)],
      LogInput("bogus", "info") }

\* AuditLogEntryInputSchema.parse accepts the input
ValidLogInput(input) ==
    /\ input.action \in
         { "llm.request", "llm.response", "llm.error", "llm.retry",
           "governance.cost_check", "governance.cost_exceeded",
           "governance.pii_detected", "governance.pii_redacted",
           "governance.confidence_filtered", "auth.token_validated",
           "auth.token_rejected", "system.startup", "system.shutdown",
           "system.config_change", "custom" }
    /\ input.level \in DOMAIN LOG_LEVEL_PRIORITY \cup {Undefined}
    /\ input.outcome \in {"success", "failure", "partial", Undefined}

\* AuditLogger.log with logCount = count, at time clock, Math.random giving
\* random: what it throws or returns, logCount after it, what it hands to
\* the sinks and the number of digests it takes
log(cfg, count, clock, random, input) ==
    LET level == IF Given(input.level) THEN input.level ELSE "info"
        entry ==
            [id |-> generateId(count, clock, random),
             timestamp |-> [iso |-> clock],
             timestampMs |-> clock,
             service |-> cfg.serviceName,
             environment |-> cfg.environment,
             schemaVersion |-> "1.0.0",
             level |-> level,
             action |-> input.action,
             userId |-> input.userId,
             sessionId |-> input.sessionId,
             requestId |-> input.requestId,
             traceId |-> input.traceId,
             message |-> input.message,
             durationMs |-> input.durationMs,
             outcome |-> input.outcome,
             metadata |-> IF input.metadata # Missing
                          THEN Obj(redact(cfg, input.metadata.entries))
                          ELSE Missing,
             error |-> input.error,
             integrityHash |-> Missing]
        hashed == IF cfg.enableIntegrityHash
                  THEN [entry EXCEPT
                           !.integrityHash = computeHash(EntryObject(entry))]
                  ELSE entry
        sink == IF cfg.output = "callback" /\ cfg.onLog
                THEN "onLog" ELSE "console"
    IN IF ~ValidLogInput(input)
       THEN [kind |-> "throw", error |-> [name |-> "ZodError"],
             logCount |-> count, emitted |-> << >>, hashes |-> 0]
       ELSE IF ~shouldLog(cfg, level)
       THEN [kind |-> "return", result |-> EmptyEntry,
             logCount |-> count, emitted |-> << >>, hashes |-> 0]
       ELSE [kind |-> "return", result |-> hashed,
             logCount |-> count + 1,
             emitted |-> << [sink |-> sink, entry |-> hashed] >>,
             hashes |-> IF cfg.enableIntegrityHash THEN 1 ELSE 0]

\* the contexts child is given
Contexts ==
    { [requestId |-> "req123", userId |-> "user456", sessionId |-> Undefined],
      [requestId |-> "req123", userId |-> "user456", sessionId |-> "sessA"] }

\* what the log of child(context) passes to the parent's log
childLog(context, input) ==
    [input EXCEPT
        !.requestId = IF Given(input.requestId)
                      THEN input.requestId ELSE context.requestId,
        !.userId = IF Given(input.userId)
                   THEN input.userId ELSE context.userId,
        !.sessionId = IF Given(input.sessionId)
                      THEN input.sessionId ELSE context.sessionId]

\* what info, warn and error of child(context) pass to the parent's log;
\* error gives its error argument too
childLevel(context, level, message, error, metadata) ==
    [LogInput("custom", level) EXCEPT
        !.message = message,
        !.error = IF level = "error" THEN error ELSE Missing,
        !.metadata = metadata,
        !.requestId = context.requestId,
        !.userId = context.userId,
        !.sessionId = context.sessionId]

----------------------------------------------------------------------------
(* The guard driven by one caller at a time *)

NoCall == [op |-> "none"]
NoRequests == <<>>
NoQuote == [impl |-> "none"]

\* the detector before any text is given to it
IdlePII ==
    /\ piiConfig = DefaultPIIConfig
    /\ scan = <<>>
    /\ detected = NoDetection
    /\ text = <<>>
    /\ results = <<>>

\* a gate just constructed with the defaults, nothing asked of it
IdleGate ==
    /\ gate = DefaultGateConfig
    /\ gateInput = NoInput
    /\ evaluations = <<>>

\* a logger just constructed with the defaults, nothing logged
IdleAudit ==
    /\ logger = DefaultLoggerConfig
    /\ logCount = 0
    /\ logInput = Missing
    /\ childContext = Missing
    /\ emitted = <<>>
    /\ logged = <<>>

\* an error that was never set: lastError before any attempt has failed
Null == [name |-> "null", status |-> 0]

\* no chat request made yet
NoChat ==
    [pc |-> "idle", estimate |-> 0, attempt |-> 0, outcomes |-> <<>>,
     recorded |-> 0, sleeps |-> 0, lastError |-> Null, error |-> Null,
     sinkThrew |-> FALSE]

\* new OpenAIAdapter({ apiKey }) of the root package: maxRetries 3, a
\* ceiling of 0.25 (here 3 units) per request, no guard and no logger
DefaultAdapter ==
    [kind |-> "root", maxRetries |-> 3, costGuard |-> FALSE,
     auditLogger |-> FALSE, sink |-> "works", usdCeilingPerRequest |-> 3]

\* an adapter just constructed, nothing asked of it
IdleChat ==
    /\ adapter = DefaultAdapter
    /\ chat = NoChat

\* a guard just constructed with the defaults, nothing asked of it
IdleGuard ==
    /\ config = DefaultConfig
    /\ usageRecords = <<>>
    /\ now = 0
    /\ call = NoCall
    /\ requests = NoRequests
    /\ quote = NoQuote

Init ==
    /\ config \in Configs
    /\ usageRecords = <<>>
    /\ now = 0
    /\ call = NoCall
    /\ requests = NoRequests
    /\ quote = NoQuote
    /\ IdlePII
    /\ IdleGate
    /\ IdleAudit
    /\ IdleChat

CheckBudget ==
    \E e \in Estimates, u \in {Undefined, "u1"}, s \in {Undefined, "s1"} :
        LET input == [estimatedCost |-> e, userId |-> u, sessionId |-> s]
        IN /\ call' = [op |-> "checkBudget", input |-> input, at |-> now,
                       outcome |-> checkBudget(config, usageRecords, now, input)]
           /\ UNCHANGED <<config, usageRecords, now, requests, quote,
                          piiVars, gateVars, auditVars, chatVars>>

RecordUsage ==
    \E usage \in Usages, b \in Backdates :
        LET record == [userId |-> usage.userId, sessionId |-> usage.sessionId,
                       cost |-> usage.cost, timestamp |-> now - b]
        IN /\ Len(usageRecords) < MaxRecords
           /\ usageRecords' = recordUsage(usageRecords, now, record)
           /\ call' = [op |-> "recordUsage", record |-> record, at |-> now,
                       before |-> usageRecords]
           /\ UNCHANGED <<config, now, requests, quote, piiVars, gateVars,
                          auditVars, chatVars>>

\* a day passes
Tick ==
    /\ now < MaxTicks * DayMs
    /\ now' = now + DayMs
    /\ call' = NoCall
    /\ UNCHANGED <<config, usageRecords, requests, quote, piiVars,
                   gateVars, auditVars, chatVars>>

Next == CheckBudget \/ RecordUsage \/ Tick

Spec == Init /\ [][Next]_vars

----------------------------------------------------------------------------
(* What the last call was, in the terms the properties use *)

Checked == call.op = "checkBudget"

Threw == call.outcome.kind = "throw"

Allowed == call.outcome.kind = "return" /\ call.outcome.result.allowed

\* the reason of the denial, from the error thrown or the result returned
Reason ==
    IF Threw THEN call.outcome.error.message ELSE call.outcome.result.reason

\* the sum of the costs of the ledger's records at the positions in I
RECURSIVE CostAt(_)
CostAt(I) ==
    IF I = {} THEN 0
    ELSE LET i == CHOOSE j \in I : TRUE
         IN usageRecords[i].cost + CostAt(I \ {i})

OfSession(sessionId) ==
    { i \in 1..Len(usageRecords) : usageRecords[i].sessionId = sessionId }

OfUser(userId) ==
    { i \in 1..Len(usageRecords) : usageRecords[i].userId = userId }

\* the user's records stamped within the 24 hours before the check
OfUserToday(userId) ==
    { i \in OfUser(userId) :
        /\ usageRecords[i].timestamp >= call.at - DayMs
        /\ usageRecords[i].timestamp <= call.at }

----------------------------------------------------------------------------
(* C2: checkBudget denies with the per-request reason exactly when the     *)
(* estimate is greater than maxCostPerRequest, whatever the ledger, the    *)
(* userId and the sessionId are; an estimate equal to the ceiling is not   *)
(* denied by this check.                                                   *)
C2_PerRequestCeiling ==
    Checked =>
        /\ call.input.estimatedCost > config.maxCostPerRequest
              => ~Allowed /\ Reason.limit = "request"
        /\ call.input.estimatedCost <= config.maxCostPerRequest
              => Reason.limit # "request"

\* an over-ceiling estimate denied whatever the ledger holds, and an
\* estimate equal to the ceiling let through
C2_Witness ==
    /\ Checked
    /\ usageRecords # <<>>
    /\ call.input.estimatedCost > config.maxCostPerRequest
    /\ ~Allowed

C2_WitnessAtCeiling ==
    /\ Checked
    /\ call.input.estimatedCost = config.maxCostPerRequest
    /\ Allowed

(* C3: with maxCostPerSession configured and a sessionId given, and the    *)
(* per-request check passed, checkBudget denies with the session reason    *)
(* exactly when the costs of the ledger's records of that session plus the *)
(* estimate are greater than maxCostPerSession; other sessions' records    *)
(* do not count.                                                           *)
C3_SessionCeiling ==
    ( /\ Checked
      /\ Configured(config.maxCostPerSession)
      /\ Given(call.input.sessionId)
      /\ call.input.estimatedCost <= config.maxCostPerRequest )
    => ( Reason.limit = "session"
         <=> CostAt(OfSession(call.input.sessionId))
                 + call.input.estimatedCost > config.maxCostPerSession )

\* a session denial, and a request let through although the whole ledger
\* plus the estimate is above the session ceiling
C3_Witness ==
    /\ Checked
    /\ Reason.limit = "session"
    /\ OfSession("s2") # {}

C3_WitnessOtherSession ==
    /\ Checked
    /\ Configured(config.maxCostPerSession)
    /\ Given(call.input.sessionId)
    /\ Allowed
    /\ CostAt(1..Len(usageRecords)) + call.input.estimatedCost
           > config.maxCostPerSession

(* C4: with maxCostPerDay configured and a userId given, the daily check   *)
(* counts only that user's records stamped within the 24 hours before the  *)
(* check: a request whose estimate plus that sum is above maxCostPerDay is *)
(* denied, a daily denial is given only then, and a record older than 24   *)
(* hours no longer counts although the ledger still holds it.              *)
C4_DailyWindow ==
    ( /\ Checked
      /\ Configured(config.maxCostPerDay)
      /\ Given(call.input.userId) )
    => LET today == CostAt(OfUserToday(call.input.userId))
                        + call.input.estimatedCost
       IN /\ today > config.maxCostPerDay => ~Allowed
          /\ Reason.limit = "daily" => today > config.maxCostPerDay

\* let through only because a record of the user is older than 24 hours
C4_Witness ==
    /\ Checked
    /\ Configured(config.maxCostPerDay)
    /\ Given(call.input.userId)
    /\ Allowed
    /\ CostAt(OfUser(call.input.userId)) + call.input.estimatedCost
           > config.maxCostPerDay

C4_WitnessDenied ==
    /\ Checked
    /\ Reason.limit = "daily"
    /\ OfUser(call.input.userId) # OfUserToday(call.input.userId)

(* C5: in strict mode every denial raises a CostGuardError carrying the    *)
(* reason and the numeric details (the estimated cost and the ceiling      *)
(* exceeded); out of strict mode nothing is raised and the denial is a     *)
(* result with allowed = false and the reason.                             *)
C5_StrictDenialDetails ==
    Checked =>
        /\ Threw =>
              /\ config.strictMode
              /\ call.outcome.error.name = "CostGuardError"
              /\ call.outcome.error.message.limit # "none"
              /\ call.outcome.error.details # NoDetails
              /\ call.outcome.error.details.estimatedCost
                     = call.input.estimatedCost
              /\ call.outcome.error.details.limit
                     = call.outcome.error.message.ceiling
        /\ ~Threw =>
              \/ call.outcome.result.allowed
              \/ ~config.strictMode /\ Reason.limit # "none"

(* C6: a request that checkBudget allows while its projected usage is      *)
(* above 80% of the session ceiling or of the daily ceiling (and not above *)
(* the ceiling) comes back with at least one warning.                      *)
C6_WarningNearCeiling ==
    ( /\ Checked
      /\ Allowed )
    => LET session == CostAt(OfSession(call.input.sessionId))
                          + call.input.estimatedCost
           daily == CostAt(OfUserToday(call.input.userId))
                        + call.input.estimatedCost
           nearSession == /\ Configured(config.maxCostPerSession)
                          /\ Given(call.input.sessionId)
                          /\ session * 10 > config.maxCostPerSession * 8
           nearDaily == /\ Configured(config.maxCostPerDay)
                        /\ Given(call.input.userId)
                        /\ daily * 10 > config.maxCostPerDay * 8
       IN nearSession \/ nearDaily => call.outcome.result.warnings # <<>>

(* C7: the 80% warning does not depend on the outcome: out of strict mode  *)
(* a result that denies for the session or the daily ceiling carries the   *)
(* warning for that ceiling.                                               *)
C7_WarningOnDenial ==
    ( /\ Checked
      /\ ~Threw
      /\ ~call.outcome.result.allowed
      /\ Reason.limit \in {"session", "daily"} )
    => \E w \in 1..Len(call.outcome.result.warnings) :
           call.outcome.result.warnings[w].limit = Reason.limit

----------------------------------------------------------------------------
(* What recordUsage was given, in the terms the properties use *)

Recorded == call.op = "recordUsage"

\* the ledger before the call followed by the record of the call
Offered == Append(call.before, call.record)

Fresh(r) == r.timestamp >= call.at - RetentionMs

\* the positions of Offered that are within the retention window
FreshAt == { i \in 1..Len(Offered) : Fresh(Offered[i]) }

\* the ledger holds the fresh records of Offered, in the order of Offered
HoldsFreshInOrder ==
    /\ Len(usageRecords) = Cardinality(FreshAt)
    /\ \A i \in FreshAt :
           usageRecords[Cardinality({ j \in FreshAt : j <= i })] = Offered[i]

(* C9 as stated: after every recordUsage call the ledger is the earlier    *)
(* surviving records in insertion order followed by the new record, and    *)
(* holds no record stamped more than 7 days before the call.               *)
C9_AppendsAndPrunes ==
    Recorded =>
        /\ usageRecords # <<>>
        /\ usageRecords[Len(usageRecords)] = call.record
        /\ HoldsFreshInOrder

(* C9 amended: after every recordUsage call the ledger is the earlier      *)
(* surviving records in insertion order, followed by the new record unless *)
(* the new record is itself stamped more than 7 days before the call, and  *)
(* holds no record stamped more than 7 days before the call.               *)
C9_AppendsFreshAndPrunes ==
    Recorded =>
        /\ HoldsFreshInOrder
        /\ Fresh(call.record) =>
              usageRecords[Len(usageRecords)] = call.record
        /\ \A i \in 1..Len(usageRecords) : Fresh(usageRecords[i])

\* a call that pruned an earlier record and kept an earlier one and its own
C9_Witness ==
    /\ Recorded
    /\ Len(call.before) = 2
    /\ ~Fresh(call.before[1])
    /\ usageRecords = <<call.before[2], call.record>>

----------------------------------------------------------------------------
(* Concurrent requests against one guard and one session.  checkBudget has *)
(* no await inside, so it runs to its end in one step; the caller awaits   *)
(* it, then awaits the provider, and only then calls recordUsage.          *)

InitRace ==
    /\ config \in { c \in Configs : Configured(c.maxCostPerSession) }
    /\ usageRecords = <<>>
    /\ now = 0
    /\ call = NoCall
    /\ \E cost \in {2, 3} :
           /\ cost <= config.maxCostPerRequest
           /\ NumRequests * cost > config.maxCostPerSession
           /\ requests = [p \in 1..NumRequests |->
                             [pc |-> "start", cost |-> cost]]
    /\ quote = NoQuote
    /\ IdlePII
    /\ IdleGate
    /\ IdleAudit
    /\ IdleChat

\* the request's checkBudget call and the caller's branch on its outcome
BeginRequest(p) ==
    /\ requests[p].pc = "start"
    /\ LET input == [estimatedCost |-> requests[p].cost, userId |-> "u1",
                     sessionId |-> "s1"]
           outcome == checkBudget(config, usageRecords, now, input)
       IN requests' = [requests EXCEPT ![p].pc =
              IF outcome.kind = "return" /\ outcome.result.allowed
              THEN "calling" ELSE "rejected"]
    /\ UNCHANGED <<config, usageRecords, now, call, quote, piiVars,
                   gateVars, auditVars, chatVars>>

\* the provider call has returned: the request records what it spent
FinishRequest(p) ==
    /\ requests[p].pc = "calling"
    /\ usageRecords' = recordUsage(usageRecords, now,
           [userId |-> "u1", sessionId |-> "s1", cost |-> requests[p].cost,
            timestamp |-> now, requestId |-> p])
    /\ requests' = [requests EXCEPT ![p].pc = "done"]
    /\ UNCHANGED <<config, now, call, quote, piiVars, gateVars, auditVars, chatVars>>

NextRace == \E p \in 1..NumRequests : BeginRequest(p) \/ FinishRequest(p)

SpecRace == InitRace /\ [][NextRace]_vars

Accepted == { p \in DOMAIN requests : requests[p].pc \in {"calling", "done"} }

(* C1: of N concurrent requests on one session, each within the            *)
(* per-request ceiling and together above maxCostPerSession, no more are   *)
(* accepted than the session ceiling permits, so never all N.              *)
C1_NoDoubleSpend ==
    /\ \A p \in Accepted :
           Cardinality(Accepted) * requests[p].cost <= config.maxCostPerSession
    /\ requests # NoRequests => Accepted # DOMAIN requests

----------------------------------------------------------------------------
(* Requests against one guard that run one at a time: each one awaits      *)
(* checkBudget and, if allowed, the provider, and then calls recordUsage   *)
(* with what it spent, before the next one starts.                         *)

Sessions == {"s1", "s2"}

InitSequential ==
    /\ config \in { c \in Configs : Configured(c.maxCostPerSession) }
    /\ usageRecords = <<>>
    /\ now = 0
    /\ call = NoCall
    /\ requests = NoRequests
    /\ quote = NoQuote
    /\ IdlePII
    /\ IdleGate
    /\ IdleAudit
    /\ IdleChat

\* the next request's checkBudget call and the caller's branch on it
CheckNext ==
    /\ Len(requests) < NumRequests
    /\ \A p \in DOMAIN requests : requests[p].pc # "calling"
    /\ \E s \in Sessions, e \in Estimates :
           LET input == [estimatedCost |-> e, userId |-> "u1",
                         sessionId |-> s]
               outcome == checkBudget(config, usageRecords, now, input)
           IN requests' = Append(requests,
                  [pc |-> IF outcome.kind = "return" /\ outcome.result.allowed
                          THEN "calling" ELSE "rejected",
                   sessionId |-> s, estimate |-> e, cost |-> 0])
    /\ UNCHANGED <<config, usageRecords, now, call, quote, piiVars,
                   gateVars, auditVars, chatVars>>

\* the provider call has returned: the request records what it spent, its
\* estimate or less, stamped with the time of the call
RecordChecked ==
    \E p \in DOMAIN requests :
        /\ requests[p].pc = "calling"
        /\ \E cost \in {requests[p].estimate - 1, requests[p].estimate} :
               /\ usageRecords' = recordUsage(usageRecords, now,
                      [userId |-> "u1", sessionId |-> requests[p].sessionId,
                       cost |-> cost, timestamp |-> now, requestId |-> p])
               /\ requests' = [requests EXCEPT ![p].pc = "done",
                                               ![p].cost = cost]
        /\ UNCHANGED <<config, now, call, quote, piiVars, gateVars,
                       auditVars, chatVars>>

\* eight days pass
Week ==
    /\ now < MaxTicks * (RetentionMs + DayMs)
    /\ now' = now + RetentionMs + DayMs
    /\ UNCHANGED <<config, usageRecords, call, requests, quote, piiVars,
                   gateVars, auditVars, chatVars>>

NextSequential == CheckNext \/ RecordChecked \/ Week

SpecSequential == InitSequential /\ [][NextSequential]_vars

\* what the requests done have recorded for the session, pruned or not
RECURSIVE SpentBy(_, _)
SpentBy(rs, sessionId) ==
    IF rs = <<>> THEN 0
    ELSE (IF Head(rs).pc = "done" /\ Head(rs).sessionId = sessionId
          THEN Head(rs).cost ELSE 0) + SpentBy(Tail(rs), sessionId)

(* C27, as stated: after any sequence of requests that run one at a time,  *)
(* each doing checkBudget with a sessionId and then, only if allowed,      *)
(* recordUsage of a cost no greater than its estimate, the costs recorded  *)
(* for each session sum to no more than maxCostPerSession.                 *)
C27_SessionWithinCeiling ==
    \A s \in Sessions : SpentBy(requests, s) <= config.maxCostPerSession

(* C27, amended: after any such sequence the costs of each session's       *)
(* records that the ledger holds, those recordUsage has not pruned for     *)
(* being older than 7 days, sum to no more than maxCostPerSession.         *)
C27_LedgerWithinCeiling ==
    \A s \in Sessions : CostAt(OfSession(s)) <= config.maxCostPerSession

\* a session at its ceiling after two requests, a third one rejected
C27_Witness ==
    /\ CostAt(OfSession("s1")) = config.maxCostPerSession
    /\ Cardinality(OfSession("s1")) = 2
    /\ \E p \in DOMAIN requests :
          /\ requests[p].pc = "rejected"
          /\ requests[p].sessionId = "s1"
          /\ requests[p].estimate <= config.maxCostPerRequest

\* no record pruned: every cost recorded is in the ledger, and the session
\* is within its ceiling
C27_WitnessUnpruned ==
    /\ Len(usageRecords) = NumRequests
    /\ SpentBy(requests, "s1") = CostAt(OfSession("s1"))
    /\ SpentBy(requests, "s1") > 0

----------------------------------------------------------------------------
(* Price tables, in micro-dollars per 1K tokens; a cost is in nano-dollars *)

DEFAULT_PRICING_TABLE ==
    [ m \in {"gpt-4o", "gpt-4o-mini", "gpt-4-turbo", "claude-3-opus",
             "claude-3-sonnet"} |->
        CASE m = "gpt-4o" ->
                 [inputPer1kTokens |-> 5000, outputPer1kTokens |-> 15000]
          [] m = "gpt-4o-mini" ->
                 [inputPer1kTokens |-> 150, outputPer1kTokens |-> 600]
          [] m = "gpt-4-turbo" ->
                 [inputPer1kTokens |-> 10000, outputPer1kTokens |-> 30000]
          [] m = "claude-3-opus" ->
                 [inputPer1kTokens |-> 15000, outputPer1kTokens |-> 75000]
          [] m = "claude-3-sonnet" ->
                 [inputPer1kTokens |-> 3000, outputPer1kTokens |-> 15000] ]

\* CostGuard.estimateCost
estimateCost(model, inputTokens, outputTokens) ==
    LET pricing == IF model \in DOMAIN DEFAULT_PRICING_TABLE
                   THEN DEFAULT_PRICING_TABLE[model]
                   ELSE DEFAULT_PRICING_TABLE["gpt-4o-mini"]
    IN inputTokens * pricing.inputPer1kTokens
           + outputTokens * pricing.outputPer1kTokens

MODEL_PRICING ==
    [ m \in {"gpt-4o", "gpt-4o-mini", "gpt-4-turbo", "gpt-3.5-turbo",
             "claude-3-opus", "claude-3-sonnet", "claude-3-haiku"} |->
        CASE m = "gpt-4o" -> [input |-> 2500, output |-> 10000]
          [] m = "gpt-4o-mini" -> [input |-> 150, output |-> 600]
          [] m = "gpt-4-turbo" -> [input |-> 10000, output |-> 30000]
          [] m = "gpt-3.5-turbo" -> [input |-> 500, output |-> 1500]
          [] m = "claude-3-opus" -> [input |-> 15000, output |-> 75000]
          [] m = "claude-3-sonnet" -> [input |-> 3000, output |-> 15000]
          [] m = "claude-3-haiku" -> [input |-> 250, output |-> 1250] ]

\* estimateCost of src/governance/costGuard.ts: its estUsd
rootEstimateCost(model, inputTokens, outputTokens) ==
    LET pricing == IF model \in DOMAIN MODEL_PRICING
                   THEN MODEL_PRICING[model]
                   ELSE [input |-> 10000, output |-> 30000]
    IN inputTokens * pricing.input + outputTokens * pricing.output

ModelNames ==
    DOMAIN DEFAULT_PRICING_TABLE \cup DOMAIN MODEL_PRICING
        \cup {"unknown", "gpt-5"}

TokenCounts == {0, 1, 500, 1000, 4000}

InitPricing ==
    /\ IdleGuard
    /\ IdlePII
    /\ IdleGate
    /\ IdleAudit
    /\ IdleChat

EstimateCost ==
    \E model \in ModelNames, i \in TokenCounts, o \in TokenCounts :
        /\ quote' = [impl |-> "core", model |-> model, inputTokens |-> i,
                     outputTokens |-> o, cost |-> estimateCost(model, i, o)]
        /\ UNCHANGED <<guardVars, requests, piiVars, gateVars, auditVars, chatVars>>

RootEstimateCost ==
    \E model \in ModelNames, i \in TokenCounts, o \in TokenCounts :
        /\ quote' = [impl |-> "root", model |-> model, inputTokens |-> i,
                     outputTokens |-> o,
                     cost |-> rootEstimateCost(model, i, o)]
        /\ UNCHANGED <<guardVars, requests, piiVars, gateVars, auditVars, chatVars>>

NextPricing == EstimateCost \/ RootEstimateCost

SpecPricing == InitPricing /\ [][NextPricing]_vars

(* C8: a model that is not in the price table is priced at least as high   *)
(* as every model of the table, for all token counts; it is never priced   *)
(* at the cheapest entry.                                                  *)
C8_UnknownModelConservative ==
    /\ ( quote.impl = "core" /\ quote.model \notin DOMAIN DEFAULT_PRICING_TABLE )
       => \A m \in DOMAIN DEFAULT_PRICING_TABLE :
              quote.cost >= estimateCost(m, quote.inputTokens,
                                         quote.outputTokens)
    /\ ( quote.impl = "root" /\ quote.model \notin DOMAIN MODEL_PRICING )
       => \A m \in DOMAIN MODEL_PRICING :
              quote.cost >= rootEstimateCost(m, quote.inputTokens,
                                             quote.outputTokens)

----------------------------------------------------------------------------
(* Detection runs on texts *)

InitPII ==
    /\ IdleGuard
    /\ piiConfig \in PIIConfigs
    /\ \E n \in 0..MaxMatches : scan \in ScansOfLen(n)
    /\ detected = NoDetection
    /\ text = <<>>
    /\ results = <<>>
    /\ IdleGate
    /\ IdleAudit
    /\ IdleChat

\* detector.process(text) on the text not yet processed
Process ==
    /\ detected = NoDetection
    /\ detected' = [impl |-> "core", detections |-> process(piiConfig, scan)]
    /\ UNCHANGED <<guardVars, requests, quote, piiConfig, scan, text, results,
                 gateVars, auditVars, chatVars>>

\* the README's detectPII(text) on the text not yet processed
DetectPII ==
    /\ detected = NoDetection
    /\ detected' = [impl |-> "demo", detections |-> detectPII(scan)]
    /\ UNCHANGED <<guardVars, requests, quote, piiConfig, scan, text, results,
                 gateVars, auditVars, chatVars>>
\* detector.hasPII(text) on the text not yet processed
HasPII ==
    /\ detected = NoDetection
    /\ detected' = [impl |-> "hasPII", detections |-> <<>>,
                    hasPII |-> hasPII(piiConfig, scan)]
    /\ UNCHANGED <<guardVars, requests, quote, piiConfig, scan, text, results,
                 gateVars, auditVars, chatVars>>

NextPII == Process \/ DetectPII \/ HasPII

SpecPII == InitPII /\ [][NextPII]_vars

\* the span of a detection, of either implementation
SpanOf(d) ==
    IF detected.impl = "demo" THEN [from |-> d.start, to |-> d.end]
    ELSE [from |-> d.startIndex, to |-> d.endIndex]

\* no position of the text is in two of the detections returned
DisjointSpans ==
    \A i, j \in 1..Len(detected.detections) :
        i < j =>
            LET a == SpanOf(detected.detections[i])
                b == SpanOf(detected.detections[j])
            IN a.to <= b.from \/ b.to <= a.from

(* C10: for every text and every configuration, the detections returned by *)
(* process and by the README's detectPII have pairwise disjoint            *)
(* [start, end) spans.                                                     *)
C10_DisjointDetections == DisjointSpans

\* the part of C10 that is about PIIDetector.process alone
ProcessDisjoint == detected.impl = "core" => DisjointSpans

\* the detections process returned include d
Kept(d) ==
    \E k \in DOMAIN detected.detections : detected.detections[k] = d

\* of the surviving matches s[j] and s[i], s[j] comes first in the order
\* the overlap loop takes them: the greater startIndex, and of two equal
\* ones the match found earlier in the scan
Prior(s, j, i) ==
    \/ s[j].startIndex > s[i].startIndex
    \/ s[j].startIndex = s[i].startIndex /\ j < i

(* C25, as stated: of two overlapping surviving matches, process never    *)
(* keeps the one found earlier in scan order while dropping the one found *)
(* later.                                                                  *)
C25_LaterInScanOrderWins ==
    detected.impl = "core" =>
        LET s == Detections(piiConfig, scan)
        IN \A i, j \in DOMAIN s :
               (i < j /\ Overlap(s[i], s[j])) =>
                   ~(Kept(s[i]) /\ ~Kept(s[j]))

(* C25, amended: every detection returned is one surviving match, whole;   *)
(* a surviving match is returned exactly when it overlaps no returned match *)
(* that has a greater startIndex or, on an equal startIndex, was found      *)
(* earlier in scan order.  The outcome is fixed by the surviving matches    *)
(* and their scan order alone.                                              *)
C25_HigherStartWins ==
    detected.impl = "core" =>
        LET s == Detections(piiConfig, scan)
        IN /\ \A k \in DOMAIN detected.detections :
                  \E i \in DOMAIN s : s[i] = detected.detections[k]
           /\ \A i \in DOMAIN s :
                  Kept(s[i]) <=>
                      ~\E j \in DOMAIN s :
                          /\ Prior(s, j, i)
                          /\ Overlap(s[j], s[i])
                          /\ Kept(s[j])

\* process kept the earlier found of two overlapping matches and dropped
\* the later found, which starts further left
C25_Witness ==
    /\ detected.impl = "core"
    /\ LET s == Detections(piiConfig, scan)
       IN \E i, j \in DOMAIN s :
              /\ i < j
              /\ Overlap(s[i], s[j])
              /\ s[i].startIndex > s[j].startIndex
              /\ Kept(s[i])
              /\ ~Kept(s[j])

\* two overlapping matches start at the same index: the earlier found stays
C25_WitnessTie ==
    /\ detected.impl = "core"
    /\ LET s == Detections(piiConfig, scan)
       IN \E i, j \in DOMAIN s :
              /\ i < j
              /\ s[i].startIndex = s[j].startIndex
              /\ Kept(s[i])
              /\ ~Kept(s[j])

(* C28: for every text and every configuration, hasPII(text) returns the  *)
(* boolean process(text).hasPII, also when a pattern's first match fails   *)
(* validation and a later match of the same pattern passes it.             *)
C28_HasPIIAgrees ==
    detected.impl = "hasPII" =>
        detected.hasPII = (process(piiConfig, scan) # <<>>)

\* hasPII never says yes where process finds nothing
HasPIISound ==
    (detected.impl = "hasPII" /\ detected.hasPII) =>
        process(piiConfig, scan) # <<>>

----------------------------------------------------------------------------
(* A text put through a redacting detector again and again *)

\* redactPII's detector: new PIIDetector({ mode: 'redact' })
RedactPIIConfig ==
    [mode |-> "redact", enabledTypes |-> PIITypes, disabledTypes |-> {},
     confidenceThreshold |-> 80]

\* the pieces the texts are made of: a@a.aa, .1.1.1.1, 1.1.1.1, .aa, a space
Chunks ==
    { <<"a", "@", "a", ".", "a", "a">>,
      <<".", "1", ".", "1", ".", "1", ".", "1">>,
      <<"1", ".", "1", ".", "1", ".", "1">>,
      <<".", "a", "a">>,
      <<" ">> }

RECURSIVE TextsOf(_)
TextsOf(n) ==
    IF n = 0 THEN { <<>> }
    ELSE { q[1] \o q[2] : q \in TextsOf(n - 1) \X Chunks }

InitRedact ==
    /\ IdleGuard
    /\ piiConfig = RedactPIIConfig
    /\ scan = <<>>
    /\ detected = NoDetection
    /\ \E n \in 0..MaxChunks : text \in TextsOf(n)
    /\ results = <<>>
    /\ IdleGate
    /\ IdleAudit
    /\ IdleChat

\* detector.process(text) on the text the last call returned
ProcessText ==
    /\ Len(results) < MaxPasses
    /\ LET result == processText(piiConfig, text)
       IN /\ results' = Append(results, result)
          /\ text' = result.text
    /\ UNCHANGED <<guardVars, requests, quote, piiConfig, scan, detected,
                 gateVars, auditVars, chatVars>>

NextRedact == ProcessText

SpecRedact == InitRedact /\ [][NextRedact]_vars

(* C11: in redact mode with the default tokens, processing the text that a *)
(* process call returned reports no PII, whatever the first text was and   *)
(* whether or not overlapping matches made the first call drop one.        *)
C11_RedactIdempotent ==
    \A k \in 2..Len(results) : ~results[k].hasPII

----------------------------------------------------------------------------
(* Texts processed in detect, redact and mask mode *)

MaskPIIConfig ==
    [mode |-> "mask", enabledTypes |-> PIITypes, disabledTypes |-> {},
     confidenceThreshold |-> 80]

\* the texts: up to MaxChunks pieces, each of them a@a.aa, .1.1.1.1, .aa
\* or the SSN 123-45-6789 after a space
MaskTexts ==
    LET pieces ==
            { <<"a", "@", "a", ".", "a", "a">>,
              <<".", "1", ".", "1", ".", "1", ".", "1">>,
              <<".", "a", "a">>,
              <<" ", "1", "2", "3", "-", "4", "5", "-",
                "6", "7", "8", "9">> }
        Of[n \in 0..MaxChunks] ==
            IF n = 0 THEN { <<>> }
            ELSE { q[1] \o q[2] : q \in Of[n - 1] \X pieces }
    IN UNION { Of[n] : n \in 0..MaxChunks }

InitMask ==
    /\ IdleGuard
    /\ piiConfig \in {DefaultPIIConfig, RedactPIIConfig, MaskPIIConfig}
    /\ scan = <<>>
    /\ detected = NoDetection
    /\ text \in MaskTexts
    /\ results = <<>>
    /\ IdleGate
    /\ IdleAudit
    /\ IdleChat

SpecMask == InitMask /\ [][NextRedact]_vars

\* the text t with the spans of the detections ds, taken from the left to
\* the right, replaced by their redactedValue; from is where the last span
\* ended
RECURSIVE Rebuilt(_, _, _)
Rebuilt(t, ds, from) ==
    IF ds = <<>> THEN SubSeq(t, from + 1, Len(t))
    ELSE SubSeq(t, from + 1, Head(ds).startIndex) \o Head(ds).redactedValue
             \o Rebuilt(t, Tail(ds), Head(ds).endIndex)

(* C26: in redact and mask mode the text process returns is the original   *)
(* text with each returned detection's span [startIndex, endIndex) replaced *)
(* by the detection's redactedValue, every other character unchanged and in *)
(* order; in detect mode it is the original text; the detections are in     *)
(* ascending order of startIndex and their indices are indices of the       *)
(* original text.                                                           *)
C26_SpansReplacedOnly ==
    \A k \in 1..Len(results) :
        LET r == results[k]
            ds == r.detections
        IN /\ \A i, j \in DOMAIN ds :
                  i < j => ds[i].endIndex <= ds[j].startIndex
           /\ \A i \in DOMAIN ds :
                  /\ 0 <= ds[i].startIndex
                  /\ ds[i].startIndex < ds[i].endIndex
                  /\ ds[i].endIndex <= Len(r.originalText)
                  /\ ds[i].value = SubSeq(r.originalText,
                                         ds[i].startIndex + 1, ds[i].endIndex)
           /\ r.text = IF piiConfig.mode = "detect" THEN r.originalText
                       ELSE Rebuilt(r.originalText, ds, 0)

\* a text with two detections has been masked: its characters moved
C26_Witness ==
    /\ piiConfig.mode = "mask"
    /\ Len(results) >= 1
    /\ Len(results[1].detections) >= 2
    /\ \E i \in DOMAIN results[1].detections :
          results[1].detections[i].type = "ssn"
    /\ Len(results[1].text) # Len(results[1].originalText)

\* a text with detections has been processed in redact mode
C26_WitnessRedact ==
    /\ piiConfig.mode = "redact"
    /\ Len(results) >= 1
    /\ Len(results[1].detections) >= 2
    /\ results[1].text # results[1].originalText

\* a text with detections has been processed in detect mode
C26_WitnessDetect ==
    /\ piiConfig.mode = "detect"
    /\ Len(results) >= 1
    /\ results[1].detections # <<>>

----------------------------------------------------------------------------
(* Card and SSN candidates given to the detector *)

\* card candidates: four groups of four digits with nothing, dashes or
\* spaces between them; 4532 0151 1283 0366 passes the Luhn checksum
CardCandidates ==
    LET groups ==
          { <<"4", "5", "3", "2">>, <<"0", "1", "5", "1">>,
            <<"1", "2", "8", "3">>, <<"0", "3", "6", "6">>,
            <<"0", "3", "6", "7">> }
    IN { g[1] \o s \o g[2] \o s \o g[3] \o s \o g[4] :
           g \in [1..4 -> groups], s \in { <<>>, <<"-">>, <<" ">> } }

\* SSN candidates: an area, a group and a serial with dashes between them
SsnCandidates ==
    LET areas ==
          { <<"0", "0", "0">>, <<"6", "6", "6">>, <<"1", "2", "3">>,
            <<"8", "9", "9">>, <<"9", "0", "0">>, <<"9", "9", "9">> }
        groups == { <<"0", "0">>, <<"4", "5">> }
        serials == { <<"0", "0", "0", "0">>, <<"6", "7", "8", "9">> }
    IN { a \o <<"-">> \o g \o <<"-">> \o s :
           a \in areas, g \in groups, s \in serials }

InitValidate ==
    /\ IdleGuard
    /\ piiConfig \in {DefaultPIIConfig, RedactPIIConfig}
    /\ scan = <<>>
    /\ detected = NoDetection
    /\ text \in CardCandidates \cup SsnCandidates
    /\ results = <<>>
    /\ IdleGate
    /\ IdleAudit
    /\ IdleChat

SpecValidate == InitValidate /\ [][NextRedact]_vars

\* the digits of a string, as numbers, the rightmost first
RECURSIVE DigitsFromRight(_)
DigitsFromRight(s) ==
    IF s = <<>> THEN <<>>
    ELSE (IF s[Len(s)] \in Digits THEN <<DigitValue[s[Len(s)]]>> ELSE <<>>)
             \o DigitsFromRight(SubSeq(s, 1, Len(s) - 1))

\* the Luhn checksum: every second digit from the right, starting with the
\* second, counts as the sum of the digits of its double
RECURSIVE LuhnSum(_, _)
LuhnSum(d, j) ==
    IF j > Len(d) THEN 0
    ELSE (IF j % 2 = 1 THEN d[j]
          ELSE ((2 * d[j]) \div 10) + ((2 * d[j]) % 10))
             + LuhnSum(d, j + 1)

PassesLuhn(value) == LuhnSum(DigitsFromRight(value), 1) % 10 = 0

\* the structural rules of an SSN written area-group-serial
WellFormedSsn(value) ==
    LET d == DigitsFromRight(value)
        serial == d[1] + 10 * d[2] + 100 * d[3] + 1000 * d[4]
        group == d[5] + 10 * d[6]
        area == d[7] + 10 * d[8] + 100 * d[9]
    IN area # 0 /\ area # 666 /\ area < 900 /\ group # 0 /\ serial # 0

\* the characters of the text a detection of a result stands for
ValueOf(result, d) ==
    SubSeq(result.originalText, d.startIndex + 1, d.endIndex)

(* C12: a match its rule's validator rejects is never among the            *)
(* detections: a card detection's digits pass the Luhn checksum, and an    *)
(* SSN detection has an area other than 000 and 666 and below 900, a group *)
(* other than 00 and a serial other than 0000.                             *)
C12_ValidatedOnly ==
    \A k \in 1..Len(results) :
        \A j \in 1..Len(results[k].detections) :
            LET d == results[k].detections[j]
                value == ValueOf(results[k], d)
            IN /\ d.type = "credit_card" => PassesLuhn(value)
               /\ d.type = "ssn" => WellFormedSsn(value)

\* a candidate the card regex matches and the checksum rejects has been
\* processed, and so has one the checksum accepts
C12_Witness ==
    /\ Len(results) = 1
    /\ results[1].originalText \in CardCandidates
    /\ ~PassesLuhn(results[1].originalText)
    /\ CardEnds(results[1].originalText, 0) # {}
    /\ results[1].detections = <<>>

C12_WitnessSsn ==
    /\ Len(results) = 1
    /\ results[1].originalText \in SsnCandidates
    /\ SsnEnds(results[1].originalText, 0) # {}
    /\ ~WellFormedSsn(results[1].originalText)
    /\ results[1].detections = <<>>

C12_WitnessAccepted ==
    /\ Len(results) = 1
    /\ \E j \in 1..Len(results[1].detections) :
          results[1].detections[j].type = "credit_card"

----------------------------------------------------------------------------
(* One input evaluated by a gate, once and again *)

InitGate ==
    /\ IdleGuard
    /\ IdlePII
    /\ gate \in GateConfigs
    /\ gateInput \in EvaluationInputs
    /\ evaluations = <<>>
    /\ IdleAudit
    /\ IdleChat

\* gate.evaluate(input), performance.now() counting elapsed milliseconds
\* between its start and its end
Evaluate ==
    /\ Len(evaluations) < MaxEvaluations
    /\ \E elapsed \in {0, 1} :
          evaluations' = Append(evaluations,
              [at |-> now, outcome |-> evaluate(gate, gateInput, now, elapsed)])
    /\ UNCHANGED <<guardVars, requests, quote, piiVars, gate, gateInput,
                   auditVars, chatVars>>

NextGate == Evaluate \/ Tick

SpecGate == InitGate /\ [][NextGate]_vars

\* the evaluations that returned
Returned == { k \in 1..Len(evaluations) : evaluations[k].outcome.kind = "return" }

EvaluationOf(k) == evaluations[k].outcome.result

(* C13: evaluate returns passed = true exactly when the confidence score   *)
(* is at least minConfidence, the uncertainty score is at most             *)
(* maxUncertainty and, if citations are required, the citations counted    *)
(* are at least minCitations.                                              *)
C13_PassedIffThresholds ==
    \A k \in Returned :
        LET e == EvaluationOf(k)
        IN e.passed <=>
             /\ e.confidenceScore >= gate.minConfidence
             /\ e.uncertaintyScore <= gate.maxUncertainty
             /\ gate.requireCitations => e.citations.count >= gate.minCitations

\* an evaluation failed on the citations alone, the two scores being within
\* their thresholds
C13_Witness ==
    \E k \in Returned :
        LET e == EvaluationOf(k)
        IN /\ ~e.passed
           /\ e.confidenceScore >= gate.minConfidence
           /\ e.uncertaintyScore <= gate.maxUncertainty
           /\ gate.requireCitations
           /\ e.citations.count < gate.minCitations

\* an evaluation passed with both scores exactly at their thresholds
C13_WitnessAtThreshold ==
    \E k \in Returned :
        LET e == EvaluationOf(k)
        IN /\ e.passed
           /\ e.confidenceScore = gate.minConfidence

(* C14: requiresHumanReview is true exactly when passed is false and       *)
(* escalation is enabled, so never on an evaluation that passes; a valid   *)
(* input of low confidence is answered with a result, not with an error.   *)
C14_ReviewIffFailedAndEscalating ==
    /\ \A k \in Returned :
          LET e == EvaluationOf(k)
          IN e.requiresHumanReview <=>
                 (~e.passed /\ gate.escalateOnLowConfidence)
    /\ ValidInput(gateInput) => Returned = 1..Len(evaluations)

\* a failed evaluation on a gate that does not escalate asks for no review
C14_Witness ==
    \E k \in Returned :
        /\ ~EvaluationOf(k).passed
        /\ ~gate.escalateOnLowConfidence
        /\ ~EvaluationOf(k).requiresHumanReview

\* a failed evaluation on an escalating gate asks for review
C14_WitnessReview ==
    \E k \in Returned :
        /\ ~EvaluationOf(k).passed
        /\ EvaluationOf(k).confidenceScore < gate.minConfidence
        /\ EvaluationOf(k).requiresHumanReview

(* C15: two evaluate calls with the same input on the same gate return     *)
(* values that are equal in every field, whenever they are made.           *)
C15_Deterministic ==
    \A i, j \in Returned : EvaluationOf(i) = EvaluationOf(j)

\* the part of C15 that is about the fields other than metadata
ScoresDeterministic ==
    \A i, j \in Returned :
        [EvaluationOf(i) EXCEPT !.metadata = 0]
            = [EvaluationOf(j) EXCEPT !.metadata = 0]

----------------------------------------------------------------------------
(* One logger and the child it returns, logging one input *)

InitAudit ==
    /\ IdleGuard
    /\ IdlePII
    /\ IdleGate
    /\ IdleChat
    /\ logger \in LoggerConfigs
    /\ logCount = 0
    /\ logInput \in LogInputs
    /\ childContext = Missing
    /\ emitted = <<>>
    /\ logged = <<>>

\* the effects of one call of the logger's log, made by way of via
Logs(via, r) ==
    /\ logCount' = r.logCount
    /\ emitted' = emitted \o r.emitted
    /\ logged' = Append(logged,
                         [via |-> via, at |-> now, before |-> logCount,
                          kind |-> r.kind, hashes |-> r.hashes,
                          result |-> IF r.kind = "return"
                                     THEN r.result ELSE r.error])
    /\ UNCHANGED <<guardVars, requests, quote, piiVars, gateVars,
                   logger, logInput, childContext, chatVars>>

\* logger.log(input)
Log ==
    /\ Len(logged) < MaxLogs
    /\ \E random \in Randoms :
          Logs("log", log(logger, logCount, now, random, logInput))

\* logger.child(context)
Child ==
    /\ childContext = Missing
    /\ childContext' \in Contexts
    /\ UNCHANGED <<guardVars, requests, quote, piiVars, gateVars,
                   logger, logCount, logInput, emitted, logged,
                   chatVars>>

\* child.log(input)
ChildLog ==
    /\ childContext # Missing
    /\ Len(logged) < MaxLogs
    /\ \E random \in Randoms :
          Logs("child.log", log(logger, logCount, now, random,
                                childLog(childContext, logInput)))

\* child.info(message, metadata), child.warn(message, metadata) and
\* child.error(message, error, metadata)
ChildLevel ==
    /\ childContext # Missing
    /\ Len(logged) < MaxLogs
    /\ \E random \in Randoms, level \in {"info", "warn", "error"} :
          Logs("child." \o level,
               log(logger, logCount, now, random,
                   childLevel(childContext, level, logInput.message,
                              logInput.error, logInput.metadata)))

\* the calls follow one another within one millisecond
NextAudit == Log \/ Child \/ ChildLog \/ ChildLevel

SpecAudit == InitAudit /\ [][NextAudit]_vars

\* the calls that returned an entry, and the entry
Entries == { k \in 1..Len(logged) :
               logged[k].kind = "return" /\ logged[k].result # EmptyEntry }

EntryOf(k) == logged[k].result

\* every denylisted key under value, within objects and within arrays,
\* holds "[REDACTED]"
RECURSIVE RedactedThroughout(_)
RedactedThroughout(value) ==
    IF value.type = "object"
    THEN \A i \in 1..Len(value.entries) :
            IF Denylisted(logger, value.entries[i].key)
            THEN value.entries[i].value = Str("[REDACTED]")
            ELSE RedactedThroughout(value.entries[i].value)
    ELSE IF value.type = "array"
    THEN \A i \in 1..Len(value.items) : RedactedThroughout(value.items[i])
    ELSE TRUE

\* the same of the keys that are reached through objects alone
RECURSIVE RedactedInObjects(_)
RedactedInObjects(value) ==
    IF value.type = "object"
    THEN \A i \in 1..Len(value.entries) :
            IF Denylisted(logger, value.entries[i].key)
            THEN value.entries[i].value = Str("[REDACTED]")
            ELSE RedactedInObjects(value.entries[i].value)
    ELSE TRUE

(* C16: in every entry log returns, every metadata key that holds a        *)
(* denylisted name, letter case apart, has the value "[REDACTED]", at      *)
(* every depth, within nested objects and within arrays.                   *)
C16_RedactedAtEveryDepth ==
    \A k \in Entries :
        EntryOf(k).metadata # Missing =>
            RedactedThroughout(EntryOf(k).metadata)

\* the part of C16 about objects nested in objects
RedactedThroughObjects ==
    \A k \in Entries :
        EntryOf(k).metadata # Missing =>
            RedactedInObjects(EntryOf(k).metadata)

\* the level log gives the call: the input's or "info", and the method's own
\* for info, warn and error of a child
LevelOf(c) ==
    IF c.via \in {"log", "child.log"}
    THEN (IF Given(logInput.level) THEN logInput.level ELSE "info")
    ELSE IF c.via = "child.info" THEN "info"
    ELSE IF c.via = "child.warn" THEN "warn"
    ELSE "error"

Below(c) == LOG_LEVEL_PRIORITY[LevelOf(c)] < LOG_LEVEL_PRIORITY[logger.minLevel]

(* C17: a log call whose level is below minLevel has no effect: nothing is *)
(* handed to a sink, no digest is taken, no id is made and logCount stays; *)
(* a call at or above minLevel hands exactly one entry to the sink, the    *)
(* one it returns.                                                         *)
C17_FilteredLevelNoEffect ==
    [][ LET c == logged'[Len(logged')]
        IN (Len(logged') = Len(logged) + 1 /\ c.kind = "return") =>
             IF Below(c)
             THEN /\ emitted' = emitted
                  /\ logCount' = logCount
                  /\ c.hashes = 0
                  /\ c.result.id = Missing
                  /\ c.result.integrityHash = Missing
             ELSE /\ Len(emitted') = Len(emitted) + 1
                  /\ SubSeq(emitted', 1, Len(emitted)) = emitted
                  /\ emitted'[Len(emitted')].entry = c.result
                  /\ emitted'[Len(emitted')].sink =
                        (IF logger.output = "callback" /\ logger.onLog
                         THEN "onLog" ELSE "console") ]_vars

\* a call below minLevel was made after one that was logged
C17_Witness ==
    \E k \in 2..Len(logged) :
        /\ logged[k].kind = "return"
        /\ Below(logged[k])
        /\ ~Below(logged[k - 1])
        /\ logged[k - 1].kind = "return"

\* a call at minLevel was handed to the callback
C17_WitnessCallback ==
    \E k \in Entries :
        /\ LevelOf(logged[k]) = logger.minLevel
        /\ \E n \in 1..Len(emitted) :
              emitted[n].sink = "onLog" /\ emitted[n].entry = EntryOf(k)

\* a JSON value with one of its leaves changed, in all the ways there are
RECURSIVE Tampered(_)
Tampered(value) ==
    IF value.type = "object"
    THEN { Obj([value.entries EXCEPT ![i].value = v]) :
             <<i, v>> \in UNION { {i} \X Tampered(value.entries[i].value) :
                                    i \in 1..Len(value.entries) } }
    ELSE IF value.type = "array"
    THEN { Arr([value.items EXCEPT ![i] = v]) :
             <<i, v>> \in UNION { {i} \X Tampered(value.items[i]) :
                                    i \in 1..Len(value.items) } }
    ELSE { [type |-> value.type, changed |-> value] }

\* the same with one of the fields of the entry itself changed, the fields
\* that are objects left as they are
TamperedOnTop(obj) ==
    { Obj([obj.entries EXCEPT
              ![i].value = [type |-> obj.entries[i].value.type,
                            changed |-> obj.entries[i].value]]) :
        i \in { n \in 1..Len(obj.entries) :
                  obj.entries[n].value.type \notin {"object", "array"} } }

(* C18: the integrityHash covers every field of the entry at every depth:  *)
(* changing any one value of a logged entry, those within metadata and     *)
(* error too, changes the text the hash is taken of.                       *)
C18_HashCoversEveryField ==
    \A k \in Entries :
        EntryOf(k).integrityHash # Missing =>
            \A changed \in Tampered(EntryObject(EntryOf(k))) :
                computeHash(changed) # EntryOf(k).integrityHash

\* the part of C18 about the fields of the entry that are not objects
HashCoversTopLevel ==
    \A k \in Entries :
        EntryOf(k).integrityHash # Missing =>
            \A changed \in TamperedOnTop(EntryObject(EntryOf(k))) :
                computeHash(changed) # EntryOf(k).integrityHash

(* C19: any two entries one logger emits, itself or through its child,     *)
(* have different ids, also when the inputs are the same and both calls    *)
(* fall in the same millisecond.                                           *)
C19_DistinctIds ==
    \A i, j \in 1..Len(emitted) :
        i # j => emitted[i].entry.id # emitted[j].entry.id

\* two entries of the same input, made in the same millisecond with the
\* same random part, one through the logger and one through its child
C19_Witness ==
    \E i, j \in Entries :
        /\ i < j
        /\ logged[i].via = "log"
        /\ logged[j].via = "child.log"
        /\ logged[i].at = logged[j].at
        /\ EntryOf(i).id.random = EntryOf(j).id.random
        /\ EntryOf(i).id.time = EntryOf(j).id.time
        /\ Len(emitted) = 2

\* the calls made through the child
ThroughChild == { k \in Entries : logged[k].via # "log" }

CarriesContext(entry) ==
    /\ Given(childContext.requestId) =>
           entry.requestId = childContext.requestId
    /\ Given(childContext.userId) => entry.userId = childContext.userId
    /\ Given(childContext.sessionId) =>
           entry.sessionId = childContext.sessionId

\* an entry logged on the logger itself has the ids of its input
CarriesInput(entry) ==
    /\ entry.requestId = logInput.requestId
    /\ entry.userId = logInput.userId
    /\ entry.sessionId = logInput.sessionId

(* C20: every entry logged through the logger child(context) returns has   *)
(* the context's requestId, userId and sessionId, and the child leaves the *)
(* parent as it was: entries logged on the parent have the ids of their    *)
(* input, not the context's.                                               *)
C20_ChildCarriesContext ==
    /\ \A k \in ThroughChild : CarriesContext(EntryOf(k))
    /\ \A k \in Entries \ ThroughChild : CarriesInput(EntryOf(k))

\* the part of C20 about info, warn and error of the child
ChildLevelCarriesContext ==
    \A k \in ThroughChild :
        logged[k].via # "child.log" => CarriesContext(EntryOf(k))

\* the part of C20 about the parent
ParentKeepsInput ==
    \A k \in Entries \ ThroughChild : CarriesInput(EntryOf(k))

----------------------------------------------------------------------------
(* OpenAIAdapter.chat.  Three adapters: the root package's ("root"), and   *)
(* the two of the core package, the one that checks the budget after       *)
(* redacting and logs no denial ("governed") and the one that checks it     *)
(* first and logs the denial ("secure").  A provider call is a fetch: it    *)
(* resolves with a response of some status or rejects.  The audit sink of   *)
(* a flaky adapter throws on some of the entries handed to it.              *)

CostGuardError == [name |-> "CostGuardError", status |-> 0]
SinkError == [name |-> "SinkError", status |-> 0]

\* what one fetch can come to
ProviderOutcomes ==
    { [kind |-> "response", status |-> s] : s \in {200, 400, 429, 500} }
        \cup { [kind |-> "rejects", status |-> 0] }

\* response.ok
Ok(o) == o.kind = "response" /\ o.status \in 200..299

isRetryableError(status) == status = 429 \/ status >= 500

\* the Error thrown for a response that is not ok, or fetch's own
ErrorOf(o) ==
    IF o.kind = "response" THEN [name |-> "Error", status |-> o.status]
    ELSE [name |-> "TypeError", status |-> 0]

\* the estimated costs of the requests, in the units of the ceilings
ChatEstimates == {2, 4}

Adapters ==
    { [kind |-> "root", maxRetries |-> r, costGuard |-> FALSE,
       auditLogger |-> FALSE, sink |-> "works", usdCeilingPerRequest |-> 3] :
        r \in 0..MaxRetries }
    \cup
    { a \in [kind : {"governed", "secure"}, maxRetries : 0..MaxRetries,
             costGuard : BOOLEAN, auditLogger : BOOLEAN,
             sink : {"works", "flaky"}, usdCeilingPerRequest : {0}] :
        ~a.auditLogger => a.sink = "works" }

\* the input of logRequest, logResponse, logError and logGovernance as the
\* adapters call them; the metadata of the entries is left out
AdapterLogInput(method) ==
    CASE method = "logRequest" ->
             [LogInput("llm.request", "info") EXCEPT
                 !.requestId = "req", !.message = "LLM request initiated"]
      [] method = "logResponse" ->
             [LogInput("llm.response", "info") EXCEPT
                 !.requestId = "req", !.durationMs = 0, !.outcome = "success"]
      [] method = "logError" ->
             [LogInput("llm.error", "error") EXCEPT
                 !.requestId = "req", !.message = "failed",
                 !.outcome = "failure"]
      [] method = "logGovernance" ->
             [LogInput("governance.cost_exceeded", "warn") EXCEPT
                 !.requestId = "req", !.message = "exceeds",
                 !.outcome = "failure"]

\* this.config.auditLogger?.method(...): nothing without a logger; else what
\* log does, the sink throwing out of log when it fails on the entry
Audit(ad, cfg, count, clock, method, sinkOk) ==
    LET r == log(cfg, count, clock, "4fzzzx", AdapterLogInput(method))
    IN IF ~ad.auditLogger
       THEN [threw |-> FALSE, logCount |-> count, emitted |-> <<>>]
       ELSE [threw |-> r.emitted # <<>> /\ ~sinkOk,
             logCount |-> r.logCount,
             emitted |-> IF sinkOk THEN r.emitted ELSE <<>>]

\* the cost check left out
CostCheck_Open(ad, cfg, records, clock, estimate) == "allow"

\* the cost check of chat: assertWithinCostCeiling for the root adapter,
\* costGuard.checkBudget({ estimatedCost, requestId }) for the others
CostCheck(ad, cfg, records, clock, estimate) ==
    IF ad.kind = "root"
    THEN IF estimate > ad.usdCeilingPerRequest THEN "throw" ELSE "allow"
    ELSE IF ~ad.costGuard THEN "allow"
    ELSE LET budgetCheck ==
                 checkBudget(cfg, records, clock,
                     [estimatedCost |-> estimate, userId |-> Undefined,
                      sessionId |-> Undefined])
         IN IF budgetCheck.kind = "throw" THEN "throw"
            ELSE IF budgetCheck.result.allowed THEN "allow" ELSE "deny"

\* what the sink may do with the entry of one audit call
SinkChoices == IF adapter.sink = "flaky" THEN BOOLEAN ELSE {TRUE}

InitChat ==
    /\ adapter \in Adapters
    /\ config \in IF adapter.costGuard
                  THEN { c \in Configs : Configured(c.maxCostPerSession) }
                  ELSE {DefaultConfig}
    /\ usageRecords = <<>>
    /\ now = 0
    /\ call = NoCall
    /\ requests = NoRequests
    /\ quote = NoQuote
    /\ IdlePII
    /\ IdleGate
    /\ logger \in IF adapter.auditLogger
                  THEN { DefaultLoggerConfig,
                         [DefaultLoggerConfig EXCEPT !.minLevel = "error"] }
                  ELSE {DefaultLoggerConfig}
    /\ logCount = 0
    /\ logInput = Missing
    /\ childContext = Missing
    /\ emitted = <<>>
    /\ logged = <<>>
    /\ chat = NoChat

\* chat up to its retry loop: the cost check, the audit entry of a denial
\* (secure adapter) or of the request (both core adapters)
StartChat ==
    /\ chat.pc = "idle"
    /\ \E estimate \in ChatEstimates, sinkOk \in SinkChoices :
           LET check == CostCheck(adapter, config, usageRecords, now,
                                  estimate)
               method ==
                   IF check = "allow" /\ adapter.kind # "root"
                   THEN "logRequest"
                   ELSE IF check = "deny" /\ adapter.kind = "secure"
                   THEN "logGovernance"
                   ELSE "none"
               a == IF method = "none"
                    THEN [threw |-> FALSE, logCount |-> logCount,
                          emitted |-> <<>>]
                    ELSE Audit(adapter, logger, logCount, now, method, sinkOk)
           IN /\ logCount' = a.logCount
              /\ emitted' = emitted \o a.emitted
              /\ chat' = [chat EXCEPT
                     !.estimate = estimate,
                     !.sinkThrew = a.threw,
                     !.pc = IF a.threw \/ check # "allow"
                            THEN "rejected" ELSE "calling",
                     !.error = IF a.threw THEN SinkError
                               ELSE IF check # "allow" THEN CostGuardError
                               ELSE Null]
    /\ UNCHANGED <<guardVars, requests, quote, piiVars, gateVars, logger,
                   logInput, childContext, logged, adapter>>

\* one turn of the retry loop: the fetch, and what follows it in the try
\* block or in the catch block
Attempt ==
    /\ chat.pc = "calling"
    /\ chat.attempt <= adapter.maxRetries
    /\ \E o \in ProviderOutcomes, sinkOk \in SinkChoices :
           LET more == chat.attempt < adapter.maxRetries
               called == [chat EXCEPT !.outcomes = Append(@, o)]
               Slept(c) == [c EXCEPT !.sleeps = IF more THEN @ + 1 ELSE @,
                                     !.attempt = @ + 1]
               Caught(c, error) == [Slept(c) EXCEPT !.lastError = error]
               a == IF Ok(o) /\ adapter.kind # "root"
                    THEN Audit(adapter, logger, logCount, now, "logResponse",
                               sinkOk)
                    ELSE [threw |-> FALSE, logCount |-> logCount,
                          emitted |-> <<>>]
               records == Ok(o) /\ adapter.kind # "root" /\ adapter.costGuard
           IN /\ usageRecords' =
                     IF records
                     THEN recordUsage(usageRecords, now,
                              [userId |-> "default", sessionId |-> Undefined,
                               cost |-> 1, timestamp |-> now])
                     ELSE usageRecords
              /\ logCount' = a.logCount
              /\ emitted' = emitted \o a.emitted
              /\ chat' =
                     IF Ok(o)
                     THEN LET c == [called EXCEPT
                                       !.recorded = IF records THEN @ + 1
                                                    ELSE @,
                                       !.sinkThrew = @ \/ a.threw]
                          IN IF a.threw THEN Caught(c, SinkError)
                             ELSE [c EXCEPT !.pc = "returned"]
                     ELSE IF /\ adapter.kind = "root"
                             /\ o.kind = "response"
                             /\ isRetryableError(o.status)
                             /\ more
                     THEN Slept(called)
                     ELSE Caught(called, ErrorOf(o))
    /\ UNCHANGED <<config, now, call, requests, quote, piiVars, gateVars,
                   logger, logInput, childContext, logged, adapter>>

\* after the loop: the audit entry of the error (core adapters) and the
\* throw of lastError
GiveUp ==
    /\ chat.pc = "calling"
    /\ chat.attempt > adapter.maxRetries
    /\ \E sinkOk \in SinkChoices :
           LET a == IF adapter.kind # "root"
                    THEN Audit(adapter, logger, logCount, now, "logError",
                               sinkOk)
                    ELSE [threw |-> FALSE, logCount |-> logCount,
                          emitted |-> <<>>]
           IN /\ logCount' = a.logCount
              /\ emitted' = emitted \o a.emitted
              /\ chat' = [chat EXCEPT
                     !.pc = "rejected",
                     !.sinkThrew = @ \/ a.threw,
                     !.error = IF a.threw THEN SinkError
                               ELSE IF /\ adapter.kind = "root"
                                       /\ chat.lastError = Null
                               THEN [name |-> "Error", status |-> 0]
                               ELSE chat.lastError]
    /\ UNCHANGED <<guardVars, requests, quote, piiVars, gateVars, logger,
                   logInput, childContext, logged, adapter>>

NextChat == StartChat \/ Attempt \/ GiveUp

SpecChat == InitChat /\ [][NextChat]_vars

----------------------------------------------------------------------------
(* The chat request, in the terms the properties use *)

Finished == chat.pc \in {"returned", "rejected"}

\* the estimate is above the ceiling the adapter was configured with
AboveCeiling ==
    IF adapter.kind = "root"
    THEN chat.estimate > adapter.usdCeilingPerRequest
    ELSE adapter.costGuard /\ chat.estimate > config.maxCostPerRequest

Calls == Len(chat.outcomes)

Succeeded(i) == Ok(chat.outcomes[i])

\* the actions of the entries the sinks have taken
Audited(action) ==
    \E k \in DOMAIN emitted : emitted[k].entry.action = action

\* what chat comes to when no audit call throws: a denial for an estimate
\* above the ceiling, the response of the first successful provider call,
\* or the error of the last provider call
NominalEnd ==
    IF chat.pc # "idle" /\ AboveCeiling
    THEN /\ chat.pc = "rejected"
         /\ chat.error = CostGuardError
         /\ Calls = 0
    ELSE IF \E i \in 1..Calls : Succeeded(i)
    THEN /\ chat.pc = "returned"
         /\ \A i \in 1..(Calls - 1) : ~Succeeded(i)
    ELSE /\ chat.pc = "rejected"
         /\ Calls > 0
         /\ chat.error = ErrorOf(chat.outcomes[Calls])

\* with a sink that never throws every chat ends that way
WorkingSinkChat == (Finished /\ adapter.sink = "works") => NominalEnd

(* C21: an audit sink that throws during any audit call does not change    *)
(* what the core adapters' chat comes to: the same allow or deny decision,  *)
(* the same response or the same error as with a working sink.              *)
C21_SinkFailureHarmless ==
    (Finished /\ adapter.kind # "root" /\ chat.sinkThrew) => NominalEnd

(* C22: when the core adapters' chat rejects a request for its cost, the    *)
(* logger's sink has taken a governance.cost_exceeded entry, whether the    *)
(* guard is in strict mode or not and whatever the logger's minLevel is.    *)
C22_DenialAudited ==
    ( /\ chat.pc = "rejected"
      /\ adapter.kind # "root"
      /\ adapter.auditLogger
      /\ adapter.sink = "works"
      /\ AboveCeiling )
    => Audited("governance.cost_exceeded")

\* the part of C22 that holds: the secure adapter with a guard out of
\* strict mode and a logger that lets the warn level through
NonStrictDenialAudited ==
    ( /\ chat.pc = "rejected"
      /\ adapter.kind = "secure"
      /\ adapter.auditLogger
      /\ adapter.sink = "works"
      /\ ~config.strictMode
      /\ shouldLog(logger, "warn")
      /\ AboveCeiling )
    => Audited("governance.cost_exceeded")

(* C23: in the core adapters' chat recordUsage is called only after a       *)
(* provider call has returned successfully and at most once per request,    *)
(* whatever the retries are and also when the audit call after it throws.   *)
C23_RecordOnceAfterSuccess ==
    /\ chat.recorded <= 1
    /\ chat.recorded > 0 => \E i \in 1..Calls : Succeeded(i)

\* the part of C23 that holds: one recordUsage call for each successful
\* provider call when a guard is configured, and none otherwise
RecordedPerSuccess ==
    chat.recorded =
        IF adapter.kind # "root" /\ adapter.costGuard
        THEN Cardinality({ i \in 1..Calls : Succeeded(i) })
        ELSE 0

C24_WitnessStrict ==
    /\ AboveCeiling
    /\ adapter.kind = "secure"
    /\ config.strictMode
    /\ chat.pc = "rejected"

C24_WitnessDenied ==
    /\ AboveCeiling
    /\ adapter.kind = "secure"
    /\ ~config.strictMode
    /\ chat.pc = "rejected"
    /\ Audited("governance.cost_exceeded")

\* the response's status is one that isRetryableError says no to
NotRetryable(o) ==
    o.kind = "response" /\ ~Ok(o) /\ ~isRetryableError(o.status)

(* C29: in the root adapter's chat a response whose status is neither 429   *)
(* nor 500 or above ends the request at once: no backoff sleep follows it   *)
(* and no further provider call is made.                                    *)
C29_OnlyRetryableRetried ==
    adapter.kind = "root" =>
        \A i \in 1..Calls :
            NotRetryable(chat.outcomes[i]) =>
                /\ i = Calls
                /\ chat.sleeps < i
                /\ chat.pc = "rejected" \/ chat.attempt > adapter.maxRetries

\* the part of C29 that holds: a response that is not retryable on the
\* last attempt ends the request with its error
LastAttemptEnds ==
    ( /\ adapter.kind = "root"
      /\ chat.pc = "rejected"
      /\ Calls > 0 )
    => /\ Calls = adapter.maxRetries + 1
       /\ chat.error = ErrorOf(chat.outcomes[Calls])

(* C30: chat makes at most maxRetries + 1 provider calls, makes no call     *)
(* after a successful response and returns it, and when every call has      *)
(* failed raises the error of the last one.                                 *)
C30_BoundedCallsFirstSuccess ==
    /\ Calls <= adapter.maxRetries + 1
    /\ \A i \in 1..(Calls - 1) : ~Succeeded(i)
    /\ chat.pc = "returned" => Calls > 0 /\ Succeeded(Calls)
    /\ (chat.pc = "rejected" /\ Calls > 0) =>
           chat.error = ErrorOf(chat.outcomes[Calls])

\* the part of C30 about the calls after a success
NoCallAfterSuccess == \A i \in 1..(Calls - 1) : ~Succeeded(i)

\* the part of C30 that holds for every adapter and every sink
BoundedCalls ==
    /\ Calls <= adapter.maxRetries + 1
    /\ chat.attempt <= adapter.maxRetries + 1
    /\ chat.pc = "returned" => Calls > 0 /\ Succeeded(Calls)

\* C30 for the root adapter, which has no audit sink
RootFirstSuccess == adapter.kind = "root" => C30_BoundedCallsFirstSuccess

\* every step of a chat request ends it, enters the retry loop or uses up
\* an attempt, and BoundedCalls bounds the attempts: chat comes to an end
ChatProgress ==
    [][\/ chat'.pc \in {"returned", "rejected"}
       \/ chat.pc = "idle" /\ chat'.pc = "calling"
       \/ chat'.attempt > chat.attempt]_vars

====
